---- MODULE Spec2Model ----
(***************************************************************************)
(* Model of the agent marketplace (HildaPosada/agent-marketplace-hackathon).*)
(*                                                                         *)
(* The repository holds two revisions of the module agent_marketplace:     *)
(*   src/agent_marketplace.py.py  one payment per agent, made through       *)
(*                                SolanaPaymentProcessor before the agent   *)
(*                                runs; try/except around the pipeline      *)
(*   src/agent_marketplace.py     one transaction per workflow, appended    *)
(*                                after the loop over selected_agents       *)
(* A process loads one of them; `revision` records which.                  *)
(*                                                                         *)
(* Amounts are integers in units of 0.0001 SOL (0.012 SOL = 120), and in   *)
(* units of 0.0001 USD for the *_usd fields, so that the 25% fee split is  *)
(* exact. uuid.uuid4() is modelled by the counters `uuids`: a workflow id   *)
(* is the number of workflow ids drawn so far, a transaction id the number *)
(* of transaction ids drawn so far, and the two kinds never collide.       *)
(* datetime.now() of a transaction is modelled by `clock`, which every     *)
(* transaction advances by one; the other timestamps (started_at,          *)
(* completed_at, failed_at, a result's timestamp) are read by nothing and  *)
(* are abstracted to the constant SomeTime.                                *)
(*                                                                         *)
(* src/coral_integration.py wraps either revision: `coral` is the state of *)
(* CoralMarketplaceIntegration and its client, `coral_call` the position   *)
(* of each execute_coral_workflow coroutine. Every request to the Coral    *)
(* server is an await, answered by the server in any of the ways the code  *)
(* tells apart.                                                            *)
(*                                                                         *)
(* src/simple_agent_demo.py and src/app.py serve the research demo: `demo` *)
(* holds the server that runs, the requests posted to /api/research with   *)
(* the position of each one's process_query, and results_history.          *)
(***************************************************************************)
EXTENDS Integers, Sequences, FiniteSets, TLC

VARIABLES
    revision,       \* which revision of agent_marketplace the process runs
    transactions,   \* payment_processor.transactions / self.transactions
    workflows,      \* self.workflows : workflow id -> workflow dict
    task,           \* one record per execute_paid_workflow coroutine
    uuids,          \* uuid.uuid4() values drawn so far, per kind of id
    clock,          \* datetime.now() as seen by the next transaction
    recent,         \* last value returned by get_recent_transactions()
    coral,          \* CoralMarketplaceIntegration and its CoralProtocolClient
    coral_call,     \* one record per execute_coral_workflow coroutine
    broadcaster,    \* the EventBroadcaster: active set, what each handle received
    demo            \* the research demo: its server, requests and results_history

vars == <<revision, transactions, workflows, task, uuids, clock, recent,
          coral, coral_call, broadcaster, demo>>

(* ------------------------------ bounds -------------------------------- *)

\* number of execute_paid_workflow coroutines that may be in flight together
NumTasks == 2
\* longest selected_agents list submitted in the single-workflow specification
MaxSel == 3
\* number of times initialize_coral_integration is called
MaxInits == 2
\* length to which the ledger grows where it is read back
MaxLedger == 11
\* number of times the wall clock is stepped back
MaxClockSteps == 1
\* number of POST /api/research requests the research demo receives
MaxRequests == 3
\* number of handles subscribe() hands out
MaxHandles == 2
\* number of publish calls
MaxPublishes == 2

Tasks == 1..NumTasks

(* ----------------------------- constants ------------------------------ *)

PerAgentRev == "agent_marketplace.py.py"
SingleTxRev == "agent_marketplace.py"
Revisions == {PerAgentRev, SingleTxRev}

\* SolanaPaymentProcessor.sol_to_usd ; the literal 180 of agent_marketplace.py
sol_to_usd == 180
\* SolanaPaymentProcessor.platform_fee = 0.25, as a percentage
platform_fee == 25
\* base of block_height in process_payment
BlockHeightBase == 287450000
\* get_recent_transactions keeps the first 10 of the sorted list
RecentLimit == 10

\* faulty variant: the analysis stage is tested before the content stage
Pipeline_AnalysisFirst == <<"search", "analysis", "content">>

\* the keys execute_paid_workflow understands, in the order the pipeline of
\* agent_marketplace.py.py tests them
Pipeline == <<"search", "content", "analysis">>
KnownKeys == {"search", "content", "analysis"}
\* an id that no catalog holds
UnknownKey == "unknown"
SelectableKeys == KnownKeys \cup {UnknownKey}

\* Agent.price_sol of the three catalog entries (same in both revisions)
price_sol(key) ==
    CASE key = "search" -> 120
      [] key = "content" -> 80
      [] key = "analysis" -> 180

\* agent_info.id of the agent behind a pipeline key (agent_marketplace.py.py)
agent_info_id(key) ==
    CASE key = "search" -> "search_pro_2024"
      [] key = "content" -> "content_creator_pro"
      [] key = "analysis" -> "business_analyst_ai"

(* ------------------------- Python dict and list ----------------------- *)
\* A dict is a sequence of [k, v] entries in insertion order.

EmptyDict == <<>>

DictHas(d, k) == \E i \in 1..Len(d) : d[i].k = k

DictGet(d, k) == d[CHOOSE i \in 1..Len(d) : d[i].k = k].v

\* d[k] = v : an existing key keeps its position, a new key goes last
DictSet(d, k, v) ==
    IF DictHas(d, k)
    THEN [i \in 1..Len(d) |-> IF d[i].k = k THEN [k |-> k, v |-> v] ELSE d[i]]
    ELSE Append(d, [k |-> k, v |-> v])

DictKeys(d) == [i \in 1..Len(d) |-> d[i].k]

DictKeySet(d) == {d[i].k : i \in 1..Len(d)}

\* x in list
InList(x, l) == \E i \in 1..Len(l) : l[i] = x

\* the number of positions of a selection that hold an id
Occurrences(k, sel) == Cardinality({i \in 1..Len(sel) : sel[i] = k})

RECURSIVE SumSeq(_)
SumSeq(s) == IF s = <<>> THEN 0 ELSE s[1] + SumSeq(Tail(s))

SeqsUpTo(S, n) == UNION {[1..k -> S] : k \in 0..n}

(* ------------------------------ task state ---------------------------- *)
\* pc of an execute_paid_workflow coroutine:
\*   "idle"      not called yet
\*   "payment"   suspended in process_payment's asyncio.sleep(0.8) for `stage`
\*   "agent"     suspended in the asyncio.sleep of agent `stage`'s execute()
\*   "sleep"     suspended in asyncio.sleep(3) (agent_marketplace.py)
\*   "returned"  the call returned its workflow dict
\*   "raised"    the call raised to its caller
\* `trace` is a history of the call: charges made, agents invoked, results
\* stored, failures; it is read by properties only.

NoWorkflow == [status |-> "none"]

\* a timestamp that nothing reads
SomeTime == "isoformat"

\* uuid.uuid4() for a workflow id and for a transaction id
WorkflowUuid(u) == <<"wf", u.wf + 1>>
TransactionUuid(u) == <<"tx", u.tx + 1>>

IdleTask == [pc |-> "idle", stage |-> "none", workflow_id |-> <<>>, query |-> "",
             selected_agents |-> <<>>, user_wallet |-> "", user_id |-> "",
             workflow |-> NoWorkflow, trace |-> <<>>]

\* the state of a slot no execute_coral_workflow call has used
NoCoralCall == [pc |-> "none", selected_agents |-> <<>>, enabled |-> FALSE,
                thread_id |-> "None", result |-> "None", executes |-> 0]

\* slot u has been used by a call, made directly or through the integration
\* (the slots are used in order, so that equal runs are not counted twice)
Started(u) == task[u].pc # "idle" \/ coral_call[u].pc # "none"

\* execute_paid_workflow has just returned to an execute_coral_workflow that
\* goes on, without an await, to write its metadata into the dict: no other
\* coroutine runs before it has
AttachPending ==
    \E t \in Tasks : /\ coral_call[t].pc = "execute"
                     /\ coral_call[t].result = "ack"
                     /\ task[t].pc = "returned"

\* the query a caller passes: one distinct string per call
QueryOf(t) == <<"query", t>>

Event(ev, key, data) == [ev |-> ev, key |-> key, data |-> data]

(* --------------- agent_marketplace.py.py : payment processor ---------- *)

\* faulty variant: the creator is credited the whole amount, the fee on top
PaymentRecord_FeeOnTop(ledger, amount_sol, user_wallet, agent_id, uuid, now) ==
    [tx_hash |-> uuid,
     amount_sol |-> amount_sol,
     amount_usd |-> amount_sol * sol_to_usd,
     from_wallet |-> user_wallet,
     to_wallet |-> "marketplace_treasury",
     agent_id |-> agent_id,
     status |-> "confirmed",
     block_height |-> BlockHeightBase + Len(ledger),
     timestamp |-> now,
     platform_fee_sol |-> (amount_sol * platform_fee) \div 100,
     creator_earning_sol |-> amount_sol]

\* faulty variant: the block height is read after the append
PaymentRecord_HeightAfterAppend(ledger, amount_sol, user_wallet, agent_id, uuid, now) ==
    [tx_hash |-> uuid,
     amount_sol |-> amount_sol,
     amount_usd |-> amount_sol * sol_to_usd,
     from_wallet |-> user_wallet,
     to_wallet |-> "marketplace_treasury",
     agent_id |-> agent_id,
     status |-> "confirmed",
     block_height |-> BlockHeightBase + Len(ledger) + 1,
     timestamp |-> now,
     platform_fee_sol |-> (amount_sol * platform_fee) \div 100,
     creator_earning_sol |-> (amount_sol * (100 - platform_fee)) \div 100]

\* the dict built by SolanaPaymentProcessor.process_payment after its sleep
PaymentRecord(ledger, amount_sol, user_wallet, agent_id, uuid, now) ==
    [tx_hash |-> uuid,
     amount_sol |-> amount_sol,
     amount_usd |-> amount_sol * sol_to_usd,
     from_wallet |-> user_wallet,
     to_wallet |-> "marketplace_treasury",
     agent_id |-> agent_id,
     status |-> "confirmed",
     block_height |-> BlockHeightBase + Len(ledger),
     timestamp |-> now,
     platform_fee_sol |-> (amount_sol * platform_fee) \div 100,
     creator_earning_sol |-> (amount_sol * (100 - platform_fee)) \div 100]

\* faulty variant: the transaction is appended twice
LedgerAppend_Twice(ledger, tx) == Append(Append(ledger, tx), tx)

\* faulty variant: the transaction is written over the last one instead of after it
LedgerAppend_Overwrite(ledger, tx) ==
    IF ledger = <<>> THEN <<tx>> ELSE [ledger EXCEPT ![Len(ledger)] = tx]

\* self.transactions.append(transaction)
LedgerAppend(ledger, tx) == Append(ledger, tx)

(* --------------- agent_marketplace.py.py : the three agents ----------- *)
\* The payloads are abstracted to the fields that carry data from the input:
\* SearchAgent derives its titles from the query; ContentAgent and
\* AnalysisAgent read market_intelligence out of the search result they get.

SearchExecute(query) ==
    [agent_id |-> agent_info_id("search"), task_type |-> "advanced_search",
     query |-> query, market_size_usd |-> "$47.2B"]

ContentExecute(search_data) ==
    [agent_id |-> agent_info_id("content"), task_type |-> "content_creation",
     market_size_usd |-> search_data.market_size_usd]

AnalysisExecute(search_data, content_data) ==
    [agent_id |-> agent_info_id("analysis"), task_type |-> "strategic_analysis",
     market_size_usd |-> search_data.market_size_usd]

\* faulty variant: the content agent is given the search result of another query
AgentInput_OtherQuery(key, w) ==
    CASE key = "search" -> <<w.query>>
      [] key = "content" ->
           <<[DictGet(w.results, "search") EXCEPT !.query = <<"query", 0>>]>>
      [] key = "analysis" ->
           <<DictGet(w.results, "search"),
             IF DictHas(w.results, "content")
             THEN DictGet(w.results, "content") ELSE EmptyDict>>

\* the arguments execute_paid_workflow passes to the agent of `key`
AgentInput(key, w) ==
    CASE key = "search" -> <<w.query>>
      [] key = "content" -> <<DictGet(w.results, "search")>>
      [] key = "analysis" ->
           <<DictGet(w.results, "search"),
             IF DictHas(w.results, "content")
             THEN DictGet(w.results, "content") ELSE EmptyDict>>

AgentExecute(key, input) ==
    CASE key = "search" -> SearchExecute(input[1])
      [] key = "content" -> ContentExecute(input[1])
      [] key = "analysis" -> AnalysisExecute(input[1], input[2])

(* --------------- agent_marketplace.py.py : execute_paid_workflow ------ *)

\* faulty variant: the workflow dict is built already completed
NewWorkflow_BuiltCompleted(id, query, selected_agents, user_wallet, user_id, now) ==
    [id |-> id, query |-> query, user_id |-> user_id,
     user_wallet |-> user_wallet, selected_agents |-> selected_agents,
     status |-> "completed", started_at |-> now,
     results |-> EmptyDict, payments |-> EmptyDict,
     total_cost_sol |-> 0, total_cost_usd |-> 0]

\* the workflow dict as first built
NewWorkflow(id, query, selected_agents, user_wallet, user_id, now) ==
    [id |-> id, query |-> query, user_id |-> user_id,
     user_wallet |-> user_wallet, selected_agents |-> selected_agents,
     status |-> "processing", started_at |-> now,
     results |-> EmptyDict, payments |-> EmptyDict,
     total_cost_sol |-> 0, total_cost_usd |-> 0]

\* faulty variant: every stage runs whenever its agent is selected
StageSelected_NoGate(key, w) == InList(key, w.selected_agents)

\* the `if` guarding each stage of the pipeline
StageSelected(key, w) ==
    IF key = "search"
    THEN InList("search", w.selected_agents)
    ELSE InList(key, w.selected_agents) /\ DictHas(w.results, "search")

StageIndex(key) == CHOOSE i \in 1..Len(Pipeline) : Pipeline[i] = key

\* the first stage at or after index i whose `if` holds; 0 when none is left
NextStage(i, w) ==
    LET later == {j \in i..Len(Pipeline) : StageSelected(Pipeline[j], w)}
    IN IF later = {} THEN 0 ELSE CHOOSE j \in later : \A k \in later : j <= k

\* faulty variant: a completed workflow is given an empty error detail
Finalize_WithError(w, now) ==
    [completed_at |-> now, success |-> TRUE, error |-> ""] @@
    [w EXCEPT !.status = "completed",
              !.total_cost_usd = w.total_cost_sol * sol_to_usd]

\* faulty variant: the completion time is recorded but the status is not set
Finalize_StillProcessing(w, now) ==
    [completed_at |-> now, success |-> TRUE] @@
    [w EXCEPT !.total_cost_usd = w.total_cost_sol * sol_to_usd]

\* "Finalize workflow"
Finalize(w, now) ==
    [completed_at |-> now, success |-> TRUE] @@
    [w EXCEPT !.status = "completed",
              !.total_cost_usd = w.total_cost_sol * sol_to_usd]

\* faulty variant: the payment is recorded but its amount is not added to the cost
RecordPayment_NoCost(w, key, tx) == [w EXCEPT !.payments = DictSet(@, key, tx)]

\* faulty variant: the payment is filed under the agent's catalogue id
RecordPayment_UnderAgentId(w, key, tx) ==
    [w EXCEPT !.payments = DictSet(@, agent_info_id(key), tx),
              !.total_cost_sol = @ + tx.amount_sol]

\* faulty variant: the amount is added once for every occurrence of the key
RecordPayment_PerOccurrence(w, key, tx) ==
    [w EXCEPT !.payments = DictSet(@, key, tx),
              !.total_cost_sol = @ + tx.amount_sol * Occurrences(key, w.selected_agents)]

\* workflow["payments"][key] = payment ; workflow["total_cost_sol"] += amount
RecordPayment(w, key, tx) ==
    [w EXCEPT !.payments = DictSet(@, key, tx),
              !.total_cost_sol = @ + tx.amount_sol]

\* faulty variant: the failing agent's payment is taken back out of the workflow
MarkFailed_Rollback(w, err, now) ==
    [error |-> err, failed_at |-> now] @@
    [w EXCEPT !.status = "failed",
              !.payments = SubSeq(@, 1, Len(@) - 1),
              !.total_cost_sol = @ - w.payments[Len(w.payments)].v.amount_sol]

\* faulty variant: the error is recorded but the status is left as it was
MarkFailed_KeepStatus(w, err, now) == [error |-> err, failed_at |-> now] @@ w

\* the except branch
MarkFailed(w, err, now) ==
    [error |-> err, failed_at |-> now] @@ [w EXCEPT !.status = "failed"]

\* self.workflows[workflow_id] = workflow
StoreWorkflow(store, id, w) == (id :> w) @@ store

\* faulty variant: the workflow is put into the store before every await
Continue_StoresEarly(t, tk, i) ==
    LET j == NextStage(i, tk.workflow) IN
    IF j = 0
    THEN LET w == Finalize(tk.workflow, SomeTime) IN
         /\ task' = [task EXCEPT ![t] =
                [tk EXCEPT !.pc = "returned", !.stage = "none", !.workflow = w]]
         /\ workflows' = StoreWorkflow(workflows, w.id, w)
    ELSE /\ task' = [task EXCEPT ![t] =
                [tk EXCEPT !.pc = "payment", !.stage = Pipeline[j]]]
         /\ workflows' = StoreWorkflow(workflows, tk.workflow.id, tk.workflow)

\* Runs the coroutine from pipeline index i up to its next await, or to its
\* return: tk is the task record so far.
Continue(t, tk, i) ==
    LET j == NextStage(i, tk.workflow) IN
    IF j = 0
    THEN LET w == Finalize(tk.workflow, SomeTime) IN
         /\ task' = [task EXCEPT ![t] =
                [tk EXCEPT !.pc = "returned", !.stage = "none", !.workflow = w]]
         /\ workflows' = StoreWorkflow(workflows, w.id, w)
    ELSE /\ task' = [task EXCEPT ![t] =
                [tk EXCEPT !.pc = "payment", !.stage = Pipeline[j]]]
         /\ workflows' = workflows

\* execute_paid_workflow is called: the dict is built and the coroutine runs
\* to the sleep of its first payment (or to its return when no stage applies)
CallPerAgent(t, sel) ==
    /\ ~AttachPending
    /\ revision = PerAgentRev
    /\ task[t].pc = "idle"
    /\ \A u \in Tasks : u < t => Started(u)
    /\ LET id == WorkflowUuid(uuids)
           w == NewWorkflow(id, QueryOf(t), sel, "demo_wallet", "demo_user", SomeTime)
           tk == [IdleTask EXCEPT !.workflow_id = id, !.query = QueryOf(t),
                                  !.selected_agents = sel,
                                  !.user_wallet = "demo_wallet",
                                  !.user_id = "demo_user", !.workflow = w]
       IN Continue(t, tk, 1)
    /\ uuids' = [uuids EXCEPT !.wf = @ + 1]
    /\ UNCHANGED <<demo, broadcaster, revision, transactions, clock, recent>>

\* a caller calls execute_paid_workflow itself
SubmitPerAgent(t, sel) ==
    /\ coral_call[t].pc = "none"
    /\ CallPerAgent(t, sel)
    /\ UNCHANGED <<coral, coral_call>>

\* process_payment resumes after its sleep: the transaction is built and
\* appended, execute_paid_workflow records it and calls the agent, which
\* suspends in its own sleep
PaymentConfirmed(t) ==
    /\ ~AttachPending
    /\ revision = PerAgentRev
    /\ task[t].pc = "payment"
    /\ LET tk == task[t]
           key == tk.stage
           tx == PaymentRecord(transactions, price_sol(key), tk.user_wallet,
                               agent_info_id(key), TransactionUuid(uuids), clock)
           w == RecordPayment(tk.workflow, key, tx)
       IN /\ transactions' = LedgerAppend(transactions, tx)
          /\ task' = [task EXCEPT ![t] =
                 [tk EXCEPT !.pc = "agent", !.workflow = w,
                            !.trace = @ \o <<Event("charge", key, tx.tx_hash),
                                             Event("invoke", key, AgentInput(key, w))>>]]
    /\ uuids' = [uuids EXCEPT !.tx = @ + 1]
    /\ clock' = clock + 1
    /\ UNCHANGED <<demo, broadcaster, revision, workflows, recent, coral, coral_call>>

\* the agent's execute() returns: the result is stored and the coroutine
\* runs on to its next payment or to its return
AgentReturns(t) ==
    /\ ~AttachPending
    /\ revision = PerAgentRev
    /\ task[t].pc = "agent"
    /\ LET tk == task[t]
           key == tk.stage
           res == AgentExecute(key, AgentInput(key, tk.workflow)) @@ [timestamp |-> SomeTime]
           w == [tk.workflow EXCEPT !.results = DictSet(@, key, res)]
           tk2 == [tk EXCEPT !.workflow = w,
                             !.trace = Append(@, Event("result", key, res))]
       IN Continue(t, tk2, StageIndex(key) + 1)
    /\ UNCHANGED <<demo, broadcaster, revision, transactions, uuids, clock, recent, coral, coral_call>>

\* faulty variant: the except branch returns the failed workflow instead of raising
AgentRaises_Returns(t) ==
    /\ ~AttachPending
    /\ revision = PerAgentRev
    /\ task[t].pc = "agent"
    /\ LET tk == task[t]
           w == MarkFailed(tk.workflow, <<"error", tk.stage>>, SomeTime)
       IN /\ task' = [task EXCEPT ![t] =
                 [tk EXCEPT !.pc = "returned", !.workflow = w,
                            !.trace = Append(@, Event("fail", tk.stage, w.error))]]
          /\ workflows' = StoreWorkflow(workflows, w.id, w)
    /\ UNCHANGED <<demo, broadcaster, revision, transactions, uuids, clock, recent, coral, coral_call>>

\* the agent's execute() raises an Exception: the except branch marks the
\* workflow failed, stores it and re-raises
AgentRaises(t) ==
    /\ ~AttachPending
    /\ revision = PerAgentRev
    /\ task[t].pc = "agent"
    /\ LET tk == task[t]
           w == MarkFailed(tk.workflow, <<"error", tk.stage>>, SomeTime)
       IN /\ task' = [task EXCEPT ![t] =
                 [tk EXCEPT !.pc = "raised", !.workflow = w,
                            !.trace = Append(@, Event("fail", tk.stage, w.error))]]
          /\ workflows' = StoreWorkflow(workflows, w.id, w)
    /\ UNCHANGED <<demo, broadcaster, revision, transactions, uuids, clock, recent, coral, coral_call>>

(* --------------- agent_marketplace.py : execute_paid_workflow --------- *)

\* next((a for a in self.agents if a.id == agent_id), None) is not None
CatalogHas(agent_id) == agent_id \in KnownKeys

\* the literal each branch of the loop stores in agent_results
SimpleResult(agent_id, query) ==
    CASE agent_id = "search" -> [kind |-> "search", query |-> query, confidence_score |-> 94]
      [] agent_id = "content" -> [kind |-> "content", word_count |-> 1250]
      [] agent_id = "analysis" -> [kind |-> "analysis", query |-> query]

\* faulty variant: an agent already in agent_results is not priced again
LoopBody_Dedupe(acc, agent_id, query) ==
    IF CatalogHas(agent_id) /\ ~DictHas(acc.agent_results, agent_id)
    THEN [total_cost_sol |-> acc.total_cost_sol + price_sol(agent_id),
          agent_results |-> DictSet(acc.agent_results, agent_id,
                                    SimpleResult(agent_id, query)),
          trace |-> acc.trace \o
                    <<Event("invoke", agent_id, <<query>>),
                      Event("result", agent_id, SimpleResult(agent_id, query))>>]
    ELSE acc

\* faulty variant: an id the catalog does not hold gets an empty result entry
LoopBody_NoSkip(acc, agent_id, query) ==
    IF CatalogHas(agent_id)
    THEN [total_cost_sol |-> acc.total_cost_sol + price_sol(agent_id),
          agent_results |-> DictSet(acc.agent_results, agent_id,
                                    SimpleResult(agent_id, query)),
          trace |-> acc.trace \o
                    <<Event("invoke", agent_id, <<query>>),
                      Event("result", agent_id, SimpleResult(agent_id, query))>>]
    ELSE [acc EXCEPT !.agent_results = DictSet(@, agent_id, EmptyDict)]

\* one iteration of `for agent_id in selected_agents`
LoopBody(acc, agent_id, query) ==
    IF CatalogHas(agent_id)
    THEN [total_cost_sol |-> acc.total_cost_sol + price_sol(agent_id),
          agent_results |-> DictSet(acc.agent_results, agent_id,
                                    SimpleResult(agent_id, query)),
          trace |-> acc.trace \o
                    <<Event("invoke", agent_id, <<query>>),
                      Event("result", agent_id, SimpleResult(agent_id, query))>>]
    ELSE acc

\* the whole loop, from index i on
RECURSIVE RunLoop(_, _, _, _)
RunLoop(sel, i, acc, query) ==
    IF i > Len(sel) THEN acc
    ELSE RunLoop(sel, i + 1, LoopBody(acc, sel[i], query), query)

\* "Create transaction"
SimpleTransaction(total_cost_sol, user_wallet, uuid, now) ==
    [id |-> uuid, amount_sol |-> total_cost_sol, user_wallet |-> user_wallet,
     timestamp |-> now]

\* the workflow dict built after the loop
SimpleWorkflow(id, query, selected_agents, total_cost_sol, agent_results, now) ==
    [id |-> id, query |-> query, selected_agents |-> selected_agents,
     total_cost_sol |-> total_cost_sol,
     total_cost_usd |-> total_cost_sol * sol_to_usd,
     results |-> agent_results, status |-> "completed", completed_at |-> now]

\* execute_paid_workflow is called: it draws the workflow id and suspends in
\* asyncio.sleep(3)
CallSingleTx(t, sel) ==
    /\ ~AttachPending
    /\ revision = SingleTxRev
    /\ task[t].pc = "idle"
    /\ \A u \in Tasks : u < t => Started(u)
    /\ task' = [task EXCEPT ![t] =
           [IdleTask EXCEPT !.pc = "sleep", !.workflow_id = WorkflowUuid(uuids),
                            !.query = QueryOf(t), !.selected_agents = sel,
                            !.user_wallet = "demo_wallet",
                            !.user_id = "demo_user"]]
    /\ uuids' = [uuids EXCEPT !.wf = @ + 1]
    /\ UNCHANGED <<demo, broadcaster, revision, transactions, workflows, clock, recent>>

\* a caller calls execute_paid_workflow itself
SubmitSingleTx(t, sel) ==
    /\ coral_call[t].pc = "none"
    /\ CallSingleTx(t, sel)
    /\ UNCHANGED <<coral, coral_call>>

\* the coroutine resumes after the sleep and runs to its return without
\* another await: loop, transaction, workflow, store
RunSingleTx(t) ==
    /\ ~AttachPending
    /\ revision = SingleTxRev
    /\ task[t].pc = "sleep"
    /\ LET tk == task[t]
           acc == RunLoop(tk.selected_agents, 1,
                          [total_cost_sol |-> 0, agent_results |-> EmptyDict,
                           trace |-> <<>>], tk.query)
           tx == SimpleTransaction(acc.total_cost_sol, tk.user_wallet,
                                   TransactionUuid(uuids), clock)
           w == SimpleWorkflow(tk.workflow_id, tk.query, tk.selected_agents,
                               acc.total_cost_sol, acc.agent_results, SomeTime)
       IN /\ transactions' = LedgerAppend(transactions, tx)
          /\ workflows' = StoreWorkflow(workflows, w.id, w)
          /\ task' = [task EXCEPT ![t] =
                 [tk EXCEPT !.pc = "returned", !.workflow = w,
                            !.trace = acc.trace \o
                                      <<Event("charge", "workflow", tx.id)>>]]
    /\ uuids' = [uuids EXCEPT !.tx = @ + 1]
    /\ clock' = clock + 1
    /\ UNCHANGED <<demo, broadcaster, revision, recent, coral, coral_call>>

(* --------------- agent_marketplace.py.py : ledger views --------------- *)

\* faulty variant: the list is reversed, latest appended first, not sorted
SortedByTimestampDesc_Reversed(l) == [i \in 1..Len(l) |-> l[Len(l) + 1 - i]]

\* x goes behind every element whose timestamp is >= its own: with the
\* elements taken left to right this is sorted(..., reverse=True), which
\* keeps elements of equal key in their original order
InsertDesc(sorted, x) ==
    LET before == {i \in 1..Len(sorted) : sorted[i].timestamp >= x.timestamp}
        n == Cardinality(before)
    IN SubSeq(sorted, 1, n) \o <<x>> \o SubSeq(sorted, n + 1, Len(sorted))

RECURSIVE SortedByTimestampDesc(_)
SortedByTimestampDesc(l) ==
    IF l = <<>> THEN <<>>
    ELSE InsertDesc(SortedByTimestampDesc(SubSeq(l, 1, Len(l) - 1)), l[Len(l)])

\* list[:n]
Take(l, n) == SubSeq(l, 1, IF Len(l) < n THEN Len(l) ELSE n)

\* faulty variant: the list is sorted in place, as list.sort() does
ListAfterSorted_InPlace(l) == SortedByTimestampDesc(l)

\* what sorted() leaves in the list it is given: sorted() builds a new list
ListAfterSorted(l) == l

\* get_recent_transactions()
GetRecentTransactions ==
    /\ ~AttachPending
    /\ revision = PerAgentRev
    /\ recent' = Take(SortedByTimestampDesc(transactions), RecentLimit)
    /\ recent' # recent
    /\ transactions' = ListAfterSorted(transactions)
    /\ UNCHANGED <<demo, broadcaster, revision, workflows, task, uuids, clock, coral, coral_call>>

\* the None that dict.get returns for a missing key, as a value that can be
\* compared with a workflow dict
NoneWorkflow == [none |-> TRUE]

\* faulty variant: a failed workflow is reported as absent
get_workflow_result_CompletedOnly(workflow_id) ==
    IF workflow_id \in DOMAIN workflows /\ workflows[workflow_id].status = "completed"
    THEN workflows[workflow_id]
    ELSE NoneWorkflow

\* get_workflow_result(workflow_id) : self.workflows.get(workflow_id)
get_workflow_result(workflow_id) ==
    IF workflow_id \in DOMAIN workflows THEN workflows[workflow_id] ELSE NoneWorkflow

(* ----------------------- statistics of the ledger --------------------- *)

\* faulty variant: the total is the amount of the latest transaction only
TotalRevenue_LastOnly(ledger) ==
    IF ledger = <<>> THEN 0 ELSE ledger[Len(ledger)].amount_sol

\* sum(tx["amount_sol"] for tx in transactions)
TotalRevenue(ledger) == SumSeq([i \in 1..Len(ledger) |-> ledger[i].amount_sol])

(* The amounts are Python floats, IEEE binary64. A float x below 0.25 is
   held exactly as the integer x * 2^59 in two limbs of 29 bits: the prices
   lie in [2^-7, 2^-5), where neighbouring floats are 2^-59 or 2^-58 apart. *)

Limb == 536870912

Float(hi, lo) == [hi |-> hi, lo |-> lo]

FloatZero == Float(0, 0)

\* the floats the literals 0.012, 0.008 and 0.018 of the catalogue denote
PriceFloat(key) ==
    CASE key = "search" -> Float(12884901, 476741370)
      [] key = "content" -> Float(8589934, 317827580)
      [] key = "analysis" -> Float(19327352, 446676598)

\* the number of low bits a sum in the binade of n * 2^-59 cannot hold
DroppedBits(hi) ==
    IF hi < 16777216 THEN 0
    ELSE IF hi < 33554432 THEN 1
    ELSE IF hi < 67108864 THEN 2
    ELSE IF hi < 134217728 THEN 3
    ELSE IF hi < 268435456 THEN 4
    ELSE 5

\* the float nearest to the number hi * 2^29 + lo (times 2^-59), the even
\* one of two that are equally near
RoundToFloat(hi, lo) ==
    LET unit == 2 ^ DroppedBits(hi)
        r == lo % unit
        down == lo - r
        up == 2 * r > unit \/ (2 * r = unit /\ ((down \div unit) % 2 = 1))
        rounded == IF up THEN down + unit ELSE down
    IN Float(hi + (rounded \div Limb), rounded % Limb)

\* the exact sum of two numbers held in limbs
LimbAdd(a, b) ==
    Float(a.hi + b.hi + ((a.lo + b.lo) \div Limb), (a.lo + b.lo) % Limb)

\* a + b of two floats: the exact sum, rounded
FloatAdd(a, b) == RoundToFloat(LimbAdd(a, b).hi, LimbAdd(a, b).lo)

\* the repeated `+=`, and sum(...) up to Python 3.11: the floats of a
\* sequence added up from the left, starting from 0
RECURSIVE FloatSumFrom(_, _)
FloatSumFrom(acc, fs) ==
    IF fs = <<>> THEN acc ELSE FloatSumFrom(FloatAdd(acc, fs[1]), Tail(fs))

FloatSum(fs) == FloatSumFrom(FloatZero, fs)

\* sum(...) from Python 3.12 on, which carries the rounding errors along:
\* the exact sum of the floats, rounded once
RECURSIVE LimbSum(_)
LimbSum(fs) == IF fs = <<>> THEN FloatZero ELSE LimbAdd(fs[1], LimbSum(Tail(fs)))

FloatSumCompensated(fs) == RoundToFloat(LimbSum(fs).hi, LimbSum(fs).lo)

\* what sum(...) returns, by the interpreter that runs it
BuiltinSum(fs) == {FloatSum(fs), FloatSumCompensated(fs)}

\* total_revenue / len(self.workflows) if self.workflows else 0 : the
\* quotient is kept as numerator and denominator
AvgWorkflowValue(total, store) ==
    IF DOMAIN store = {} THEN 0
    ELSE [num |-> total, den |-> Cardinality(DOMAIN store)]

\* get_marketplace_stats() of the revision the process runs
get_marketplace_stats ==
    LET total_revenue == TotalRevenue(transactions) IN
    IF revision = PerAgentRev
    THEN [total_agents |-> Cardinality(KnownKeys),
          total_workflows |-> Cardinality(DOMAIN workflows),
          total_revenue_sol |-> total_revenue,
          total_revenue_usd |-> total_revenue * sol_to_usd,
          successful_workflows |->
              Cardinality({id \in DOMAIN workflows : workflows[id].status = "completed"}),
          platform_fee_collected |-> (total_revenue * platform_fee) \div 100,
          creator_earnings |-> (total_revenue * (100 - platform_fee)) \div 100,
          avg_workflow_value |-> AvgWorkflowValue(total_revenue, workflows)]
    ELSE [total_agents |-> Cardinality(KnownKeys),
          total_workflows |-> Cardinality(DOMAIN workflows),
          total_revenue_sol |-> total_revenue,
          total_revenue_usd |-> total_revenue * sol_to_usd]

\* get_agent_catalog(), in either revision, without the description of the
\* agents
get_agent_catalog ==
    [agents |-> KnownKeys,
     total_revenue_sol |-> TotalRevenue(transactions),
     total_transactions |-> Len(transactions)]

(* ------------------- coral_integration.py : the client ---------------- *)

\* CoralMarketplaceIntegration.__init__ and CoralProtocolClient.__init__ ;
\* init is where a running initialize_coral_integration waits, inits the
\* number of calls of it so far, probes what connect_to_coral_server has
\* returned to each of them (the local `connected`)
CoralConstructed ==
    [coral_enabled |-> FALSE, session_id |-> "None", init |-> "idle", inits |-> 0,
     probes |-> <<>>]

\* the sessionId the Coral server gives to the n-th initialization
SessionId(n) == <<"session", n>>

\* the threadId the Coral server gives to the thread of call t
ThreadId(t) == <<"thread", t>>

\* initialize_coral_integration is called: it waits for GET /health
InitializeCoral ==
    /\ ~AttachPending
    /\ coral.init = "idle"
    /\ coral.inits < MaxInits
    /\ coral' = [coral EXCEPT !.init = "connect", !.inits = @ + 1]
    /\ UNCHANGED <<demo, broadcaster, revision, transactions, workflows, task, uuids, clock, recent,
                   coral_call>>

\* faulty variant: the session is asked for whatever the health check said
HealthReplies_SessionAnyway(connected) ==
    /\ ~AttachPending
    /\ coral.init = "connect"
    /\ coral' = [coral EXCEPT !.init = "session", !.probes = Append(@, connected)]
    /\ UNCHANGED <<demo, broadcaster, revision, transactions, workflows, task, uuids, clock, recent,
                   coral_call>>

\* connect_to_coral_server returns: True on status 200, False on any other
\* status or on an exception; when True, initialize_coral_integration goes on
\* to POST /sessions
HealthReplies(connected) ==
    /\ ~AttachPending
    /\ coral.init = "connect"
    /\ coral' = [coral EXCEPT !.init = IF connected THEN "session" ELSE "idle",
                              !.probes = Append(@, connected)]
    /\ UNCHANGED <<demo, broadcaster, revision, transactions, workflows, task, uuids, clock, recent,
                   coral_call>>

\* create_marketplace_session returns: on status 201 session_id is assigned
\* session_data.get("sessionId") (None when the key is missing); on any
\* other status or on an exception nothing is assigned. coral_enabled is
\* set when the value returned is truthy.
SessionReplies(reply) ==
    /\ ~AttachPending
    /\ coral.init = "session"
    /\ coral' =
          CASE reply = "created" ->
                  [coral EXCEPT !.init = "idle", !.coral_enabled = TRUE,
                                !.session_id = SessionId(coral.inits)]
            [] reply = "no_id" ->
                  [coral EXCEPT !.init = "idle", !.session_id = "None"]
            [] reply = "refused" -> [coral EXCEPT !.init = "idle"]
    /\ UNCHANGED <<demo, broadcaster, revision, transactions, workflows, task, uuids, clock, recent,
                   coral_call>>

SessionReplyKinds == {"created", "no_id", "refused"}

(* ------------- coral_integration.py : execute_coral_workflow ---------- *)

\* await self.marketplace.execute_paid_workflow(query, selected_agents,
\* user_wallet, "demo_user"), up to the first await of the callee; c is the
\* caller's record so far
RunExecute(t, c) ==
    /\ CallPerAgent(t, c.selected_agents) \/ CallSingleTx(t, c.selected_agents)
    /\ coral_call' = [coral_call EXCEPT ![t] =
           [c EXCEPT !.pc = "execute", !.executes = @ + 1]]
    /\ coral' = coral

\* faulty variant: the fallback runs the search agent only, whatever was selected
FallBack_SearchOnly(t, c) ==
    /\ CallPerAgent(t, <<"search">>) \/ CallSingleTx(t, <<"search">>)
    /\ coral_call' = [coral_call EXCEPT ![t] =
           [c EXCEPT !.pc = "execute", !.executes = @ + 1]]
    /\ coral' = coral

\* faulty variant: the failure of the Coral server ends the call with an error
FallBack_Surfaced(t, c) ==
    /\ coral_call' = [coral_call EXCEPT ![t] = [c EXCEPT !.pc = "error"]]
    /\ UNCHANGED <<demo, broadcaster, revision, transactions, workflows, task, uuids, clock, recent,
                   coral>>

\* faulty variant: execute_paid_workflow is called a second time (the second
\* call is counted, its workflow is not run)
FallBack_Twice(t, c) == RunExecute(t, [c EXCEPT !.executes = @ + 1])

\* faulty variant: giving up on Coral also disables the integration and
\* drops its session
FallBack_TearsDown(t, c) ==
    /\ CallPerAgent(t, c.selected_agents) \/ CallSingleTx(t, c.selected_agents)
    /\ coral_call' = [coral_call EXCEPT ![t] =
           [c EXCEPT !.pc = "execute", !.executes = @ + 1]]
    /\ coral' = [coral EXCEPT !.coral_enabled = FALSE, !.session_id = "None"]

\* the three `return await self.marketplace.execute_paid_workflow(...)` of
\* the branches that give up on Coral
FallBack(t, c) == RunExecute(t, c)

\* send_message_to_thread up to its await: None at once without a session
SendMessage(t, c) ==
    IF coral.session_id = "None"
    THEN FallBack(t, c)
    ELSE /\ coral_call' = [coral_call EXCEPT ![t] = [c EXCEPT !.pc = "send"]]
         /\ UNCHANGED <<demo, broadcaster, revision, transactions, workflows, task, uuids, clock,
                        recent, coral>>

\* execute_coral_workflow is called; with coral_enabled it calls create_thread,
\* which returns None at once without a session and otherwise waits for
\* POST /threads
ExecuteCoralWorkflow(t, sel) ==
    /\ ~AttachPending
    /\ coral_call[t].pc = "none"
    /\ task[t].pc = "idle"
    /\ \A u \in Tasks : u < t => Started(u)
    /\ LET c == [NoCoralCall EXCEPT !.selected_agents = sel,
                                    !.enabled = coral.coral_enabled]
       IN IF ~coral.coral_enabled \/ coral.session_id = "None"
          THEN FallBack(t, c)
          ELSE /\ coral_call' = [coral_call EXCEPT ![t] = [c EXCEPT !.pc = "thread"]]
               /\ UNCHANGED <<demo, broadcaster, revision, transactions, workflows, task, uuids,
                              clock, recent, coral>>

\* create_thread returns: the threadId on status 201, None on any other
\* status, on an exception or when the reply has no threadId
ThreadReplies(t, reply) ==
    /\ ~AttachPending
    /\ coral_call[t].pc = "thread"
    /\ IF reply = "created"
       THEN SendMessage(t, [coral_call[t] EXCEPT !.thread_id = ThreadId(t)])
       ELSE FallBack(t, coral_call[t])

ThreadReplyKinds == {"created", "refused"}

\* the branch taken on a truthy result: execute_paid_workflow is awaited
Coordinated(t, c) == RunExecute(t, c)

\* send_message_to_thread returns: the JSON body on status 200 ("ack" a
\* truthy one, "empty" a falsy one such as {}), None on any other status or
\* on an exception
MessageReplies(t, reply) ==
    /\ ~AttachPending
    /\ coral_call[t].pc = "send"
    /\ LET c == [coral_call[t] EXCEPT !.result = reply]
       IN IF reply = "ack" THEN Coordinated(t, c) ELSE FallBack(t, c)

MessageReplyKinds == {"ack", "empty", "None"}

\* min(1.0, regular_result.get("confidence_score", 0.9) + 0.05), in hundredths
EnhancedConfidence(w) ==
    LET score == IF "confidence_score" \in DOMAIN w THEN w.confidence_score ELSE 90
    IN IF score + 5 < 100 THEN score + 5 ELSE 100

\* regular_result["coral_protocol"] = {...} ; regular_result["enhanced_confidence"] = ...
Enhance(w, session_id, thread_id) ==
    [coral_protocol |-> [enabled |-> TRUE, session_id |-> session_id,
                         thread_id |-> thread_id],
     enhanced_confidence |-> EnhancedConfidence(w)] @@ w

\* execute_paid_workflow has returned its dict, which is the object stored in
\* self.workflows: the two assignments write into that one object
AttachCoral(t) ==
    /\ coral_call[t].pc = "execute"
    /\ coral_call[t].result = "ack"
    /\ task[t].pc = "returned"
    /\ LET w == Enhance(task[t].workflow, coral.session_id, coral_call[t].thread_id)
       IN /\ task' = [task EXCEPT ![t].workflow = w]
          /\ workflows' = [workflows EXCEPT ![w.id] = w]
    /\ coral_call' = [coral_call EXCEPT ![t].pc = "attached"]
    /\ UNCHANGED <<demo, broadcaster, revision, transactions, uuids, clock, recent, coral>>

(* -------------------------- EventBroadcaster -------------------------- *)
(* Contract of section 4.5: subscribe() -> handle; unsubscribe(handle);
   publish(message), a best-effort fan-out to all currently-subscribed
   handles. A send failure to one subscriber removes that subscriber from
   the active set and neither blocks nor fails delivery to the others.
   There is no backlog for subscribers that join late. *)

Handles == 1..MaxHandles

\* the lifecycle tags a publish carries
LifecycleTags == {"started", "completed", "failed"}

NoPublish == [message |-> "none", to |-> {}, failed |-> {}, raised |-> FALSE]

\* the broadcaster after construction: nobody is subscribed
BroadcasterConstructed ==
    [subscribers |-> {}, inbox |-> [h \in Handles |-> <<>>],
     last |-> NoPublish, publishes |-> 0]

\* faulty variant: the fan-out stops at the first send that fails
Delivered_StopsAtFailure(subscribers, failing) ==
    {h \in subscribers \ failing : \A f \in subscribers \cap failing : h < f}

\* the handles a publish reaches: every subscribed handle whose send succeeds
Delivered(subscribers, failing) == subscribers \ failing

\* the active set after a publish: the handles whose send failed are removed
Survivors(subscribers, failing) == subscribers \ failing

\* subscribe() -> handle
Subscribe(h) ==
    /\ h \notin broadcaster.subscribers
    /\ broadcaster' = [broadcaster EXCEPT !.subscribers = @ \cup {h}]
    /\ UNCHANGED <<demo, revision, transactions, workflows, task, uuids, clock, recent,
                   coral, coral_call>>

\* unsubscribe(handle)
Unsubscribe(h) ==
    /\ h \in broadcaster.subscribers
    /\ broadcaster' = [broadcaster EXCEPT !.subscribers = @ \ {h}]
    /\ UNCHANGED <<demo, revision, transactions, workflows, task, uuids, clock, recent,
                   coral, coral_call>>

\* publish(message): the sends to the handles of `failing` fail
Publish(message, failing) ==
    /\ broadcaster.publishes < MaxPublishes
    /\ failing \subseteq broadcaster.subscribers
    /\ LET subs == broadcaster.subscribers
           got == Delivered(subs, failing)
       IN broadcaster' =
              [subscribers |-> Survivors(subs, failing),
               inbox |-> [h \in Handles |->
                            IF h \in got THEN Append(broadcaster.inbox[h], message)
                            ELSE broadcaster.inbox[h]],
               last |-> [message |-> message, to |-> subs, failed |-> failing,
                         raised |-> FALSE],
               publishes |-> broadcaster.publishes + 1]
    /\ UNCHANGED <<demo, revision, transactions, workflows, task, uuids, clock, recent,
                   coral, coral_call>>

(* ------------- simple_agent_demo.py / app.py : research demo ---------- *)
(* A query is the sequence of its characters. simple_agent_demo.py serves
   POST /api/research from an HTTPServer whose handler starts one daemon
   thread per accepted request; app.py serves it from a FastAPI coroutine
   that runs process_query to its end without suspending (the agents sleep
   with time.sleep). Both share one AgentOrchestrator per process. The
   timestamps of the results are read by nothing and are left out. *)

\* a character json.loads accepts in a string and print cannot encode
Surrogate == "U+D800"

\* the values of 'query' posted: missing or empty, blank, padded on either
\* side, and a lone surrogate
PostedQueries == {<<>>, <<" ">>, <<" ", "a">>, <<"b", " ">>, <<Surrogate>>}

DemoServers == {"simple_agent_demo.py", "app.py"}

RECURSIVE StripLeft(_)
\* str.lstrip() for the blank character
StripLeft(s) ==
    IF s # <<>> /\ Head(s) = " " THEN StripLeft(Tail(s)) ELSE s

RECURSIVE StripRight(_)
\* str.rstrip() for the blank character
StripRight(s) ==
    IF s # <<>> /\ s[Len(s)] = " " THEN StripRight(SubSeq(s, 1, Len(s) - 1)) ELSE s

\* data.get('query', '').strip()
Strip(s) == StripRight(StripLeft(s))

\* whether print(f"... '{query}'") encodes the query for stdout
Printable(query) == \A i \in 1..Len(query) : query[i] # Surrogate

\* the value a phase has before its agent has run
NoPhase == [agent |-> "None"]

\* SearchAgent.process(query)
SearchProcess(query) ==
    [agent |-> "Search", task |-> "search_completed", query |-> query,
     results |-> [i \in 1..3 |-> [source |-> i, about |-> query]]]

\* SummarizerAgent.process(search_data)
SummarizerProcess(search_data) ==
    [agent |-> "Summarizer", task |-> "summary_completed",
     original_query |-> search_data.query,
     summary |-> [about |-> search_data.query, titles |-> search_data.results],
     source_count |-> Len(search_data.results)]

\* min(95, 60 + (source_count * 10))
Confidence(source_count) ==
    IF 60 + source_count * 10 < 95 THEN 60 + source_count * 10 ELSE 95

\* ValidatorAgent.process(summary_data)
ValidatorProcess(summary_data) ==
    LET confidence == Confidence(summary_data.source_count)
    IN [agent |-> "Validator", task |-> "validation_completed",
        final_summary |-> [summary |-> summary_data.summary,
                           confidence |-> confidence],
        confidence_score |-> confidence,
        quality_rating |-> IF confidence > 80 THEN "High" ELSE "Medium"]

AgentsUsed == <<"Search", "Summarizer", "Validator">>

\* the dict process_query appends to results_history
CompleteResult(query, search_result, summary_result, final_result) ==
    [query |-> query, search_phase |-> search_result,
     summary_phase |-> summary_result, validation_phase |-> final_result,
     agents_used |-> AgentsUsed, total_processing_time |-> "3.5 seconds"]

\* self.results_history.append(complete_result)
StoreResult(results_history, complete_result) ==
    Append(results_history, complete_result)

\* one POST /api/research: the query posted, the query after strip(), the
\* answer, where its process_query stands, the results of the agents that
\* have run, the agents run so far and the number of records it appended
Request(body_query, query, response, pc) ==
    [body_query |-> body_query, query |-> query, response |-> response, pc |-> pc,
     search_result |-> NoPhase, summary_result |-> NoPhase,
     final_result |-> NoPhase, ran |-> <<>>, appends |-> 0]

\* no server runs yet; AgentOrchestrator.__init__ : results_history = []
DemoConstructed == [server |-> "none", results_history |-> <<>>, requests |-> <<>>]

Requests == 1..MaxRequests

\* start_server() of simple_agent_demo.py, or app.py loaded by its ASGI server
StartServer(server) ==
    /\ demo.server = "none"
    /\ demo' = [demo EXCEPT !.server = server]
    /\ UNCHANGED <<broadcaster, revision, transactions, workflows, task, uuids,
                   clock, recent, coral, coral_call>>

\* DemoWebHandler.do_POST on /api/research: 400 for an empty query, otherwise
\* a daemon thread is started on process_query and "started" is answered
do_POST(body_query) ==
    /\ demo.server = "simple_agent_demo.py"
    /\ Len(demo.requests) < MaxRequests
    /\ LET query == Strip(body_query)
       IN demo' = [demo EXCEPT !.requests = Append(@,
              IF query = <<>>
              THEN Request(body_query, query, "400 Query required", "none")
              ELSE Request(body_query, query, "started", "process_query"))]
    /\ UNCHANGED <<broadcaster, revision, transactions, workflows, task, uuids,
                   clock, recent, coral, coral_call>>

\* the thread of request r enters process_query: the header is printed, the
\* query with it, and the search agent goes to sleep; a query print cannot
\* encode raises UnicodeEncodeError, which ends the thread
process_query(r) ==
    /\ r <= Len(demo.requests)
    /\ demo.requests[r].pc = "process_query"
    /\ demo' = [demo EXCEPT !.requests[r].pc =
                   IF Printable(demo.requests[r].query) THEN "search" ELSE "raised"]
    /\ UNCHANGED <<broadcaster, revision, transactions, workflows, task, uuids,
                   clock, recent, coral, coral_call>>

\* Step 1 of request r returns and the summarizer goes to sleep
SearchStep(r) ==
    /\ r <= Len(demo.requests)
    /\ demo.requests[r].pc = "search"
    /\ demo' = [demo EXCEPT
           !.requests[r].search_result = SearchProcess(demo.requests[r].query),
           !.requests[r].ran = Append(@, "Search"),
           !.requests[r].pc = "summarize"]
    /\ UNCHANGED <<broadcaster, revision, transactions, workflows, task, uuids,
                   clock, recent, coral, coral_call>>

\* Step 2 of request r returns and the validator goes to sleep
SummarizeStep(r) ==
    /\ r <= Len(demo.requests)
    /\ demo.requests[r].pc = "summarize"
    /\ demo' = [demo EXCEPT
           !.requests[r].summary_result =
               SummarizerProcess(demo.requests[r].search_result),
           !.requests[r].ran = Append(@, "Summarizer"),
           !.requests[r].pc = "validate"]
    /\ UNCHANGED <<broadcaster, revision, transactions, workflows, task, uuids,
                   clock, recent, coral, coral_call>>

\* Step 3 of request r returns
ValidateStep(r) ==
    /\ r <= Len(demo.requests)
    /\ demo.requests[r].pc = "validate"
    /\ demo' = [demo EXCEPT
           !.requests[r].final_result =
               ValidatorProcess(demo.requests[r].summary_result),
           !.requests[r].ran = Append(@, "Validator"),
           !.requests[r].pc = "store"]
    /\ UNCHANGED <<broadcaster, revision, transactions, workflows, task, uuids,
                   clock, recent, coral, coral_call>>

\* the thread of request r appends its record and ends
StoreStep(r) ==
    /\ r <= Len(demo.requests)
    /\ demo.requests[r].pc = "store"
    /\ LET q == demo.requests[r]
       IN demo' = [demo EXCEPT
              !.results_history = StoreResult(@,
                  CompleteResult(q.query, q.search_result, q.summary_result,
                                 q.final_result)),
              !.requests[r].appends = @ + 1,
              !.requests[r].pc = "done"]
    /\ UNCHANGED <<broadcaster, revision, transactions, workflows, task, uuids,
                   clock, recent, coral, coral_call>>

\* what the thread of request r does next
ThreadStep(r) ==
    \/ process_query(r)
    \/ SearchStep(r)
    \/ SummarizeStep(r)
    \/ ValidateStep(r)
    \/ StoreStep(r)

\* research() of app.py: 400 for an empty query, otherwise process_query is
\* awaited, which never suspends, and its record is the answer; an exception
\* of process_query is answered 500
research(body_query) ==
    /\ demo.server = "app.py"
    /\ Len(demo.requests) < MaxRequests
    /\ LET query == Strip(body_query)
           search_result == SearchProcess(query)
           summary_result == SummarizerProcess(search_result)
           final_result == ValidatorProcess(summary_result)
       IN demo' =
            IF query = <<>>
            THEN [demo EXCEPT !.requests =
                     Append(@, Request(body_query, query, "400 Query required", "none"))]
            ELSE IF ~Printable(query)
            THEN [demo EXCEPT !.requests =
                     Append(@, Request(body_query, query, "500", "raised"))]
            ELSE [demo EXCEPT
                     !.results_history = StoreResult(@,
                         CompleteResult(query, search_result, summary_result,
                                        final_result)),
                     !.requests = Append(@,
                         [Request(body_query, query, "200", "done") EXCEPT
                             !.search_result = search_result,
                             !.summary_result = summary_result,
                             !.final_result = final_result,
                             !.ran = AgentsUsed,
                             !.appends = 1])]
    /\ UNCHANGED <<broadcaster, revision, transactions, workflows, task, uuids,
                   clock, recent, coral, coral_call>>

(* --------------------------- specifications --------------------------- *)

Init ==
    /\ revision \in Revisions
    /\ transactions = <<>>
    /\ workflows = <<>>
    /\ task = [t \in Tasks |-> IdleTask]
    /\ uuids = [wf |-> 0, tx |-> 0]
    /\ clock = 0
    /\ recent = <<>>
    /\ coral = CoralConstructed
    /\ coral_call = [t \in Tasks |-> NoCoralCall]
    /\ broadcaster = BroadcasterConstructed
    /\ demo = DemoConstructed

\* the selections submitted while several workflows are in flight
ConcurrentSelections ==
    {<<"search", "content">>, <<"analysis", "unknown", "search">>, <<"content">>}

\* every selection of at most MaxSel ids, known or not, in any order
AllSelections == SeqsUpTo(SelectableKeys, MaxSel)

Step(t) ==
    \/ PaymentConfirmed(t)
    \/ AgentReturns(t)
    \/ AgentRaises(t)
    \/ RunSingleTx(t)

\* several workflows in flight, interleaving at every await
Next ==
    \/ \E t \in Tasks : \E sel \in ConcurrentSelections :
          SubmitPerAgent(t, sel) \/ SubmitSingleTx(t, sel)
    \/ \E t \in Tasks : Step(t)

Spec == Init /\ [][Next]_vars

\* the event loop resumes every coroutine whose sleep is over: asyncio.sleep
\* always completes, and the agent's execute() then returns or raises
SpecLive == Init /\ [][Next]_vars /\ \A t \in Tasks : WF_vars(Step(t))

\* the selections of workflows that pay for two and for three agents
PayingSelections == {<<"search", "content">>, <<"search", "content", "analysis">>}

\* several such workflows in flight
NextTotals ==
    \/ \E t \in Tasks : \E sel \in PayingSelections :
          SubmitPerAgent(t, sel) \/ SubmitSingleTx(t, sel)
    \/ \E t \in Tasks : Step(t)

SpecTotals == Init /\ [][NextTotals]_vars

\* the same, with the ledger's views called at any moment
NextLedger ==
    \/ Next
    \/ GetRecentTransactions

SpecLedger == Init /\ [][NextLedger]_vars

\* one workflow, over every selection
NextOne ==
    \/ \E sel \in AllSelections : SubmitPerAgent(1, sel) \/ SubmitSingleTx(1, sel)
    \/ Step(1)

SpecOne == Init /\ [][NextOne]_vars

\* the selections submitted through the Coral integration
CoralSelections == {<<"search">>, <<"content", "search">>}

\* workflows run through execute_coral_workflow and directly, while the
\* integration is initialized and the Coral server answers or not
NextCoral ==
    \/ InitializeCoral
    \/ \E connected \in BOOLEAN : HealthReplies(connected)
    \/ \E reply \in SessionReplyKinds : SessionReplies(reply)
    \/ \E t \in Tasks : \E sel \in CoralSelections :
          \/ ExecuteCoralWorkflow(t, sel)
          \/ SubmitPerAgent(t, sel)
          \/ SubmitSingleTx(t, sel)
    \/ \E t \in Tasks : \E reply \in ThreadReplyKinds : ThreadReplies(t, reply)
    \/ \E t \in Tasks : \E reply \in MessageReplyKinds : MessageReplies(t, reply)
    \/ \E t \in Tasks : AttachCoral(t)
    \/ \E t \in Tasks : Step(t)

SpecCoral == Init /\ [][NextCoral]_vars

\* the caller of a call that has ended lets go of what it returned, and the
\* slot serves the next call
Forget(t) ==
    /\ task[t].pc \in {"returned", "raised"}
    /\ coral_call[t].pc = "none"
    /\ task' = [task EXCEPT ![t] = IdleTask]
    /\ UNCHANGED <<demo, broadcaster, revision, transactions, workflows, uuids, clock, recent,
                   coral, coral_call>>

\* the number of transactions stamped no later than the one before them
Descents(ledger) ==
    Cardinality({i \in 1..(Len(ledger) - 1) :
                    ledger[i + 1].timestamp <= ledger[i].timestamp})

\* datetime.now() reads the wall clock, which is stepped back (by an NTP
\* correction, by the end of daylight saving time): the next transaction is
\* stamped as late as the last one (d = 1) or earlier (d = 2)
ClockSteppedBack ==
    /\ transactions # <<>>
    /\ clock = transactions[Len(transactions)].timestamp + 1
    /\ Descents(transactions) < MaxClockSteps
    /\ \E d \in {1, 2} : d <= clock /\ clock' = clock - d
    /\ UNCHANGED <<demo, broadcaster, revision, transactions, workflows, task, uuids, recent,
                   coral, coral_call>>

\* one more workflow that pays the search agent, while the ledger is short
SubmitNext(t) ==
    /\ Len(transactions) < MaxLedger
    /\ SubmitPerAgent(t, <<"search">>)

\* one workflow after the other, each adding a transaction to the ledger,
\* which is read at any moment
NextRecent ==
    \/ SubmitNext(1)
    \/ PaymentConfirmed(1)
    \/ AgentReturns(1)
    \/ Forget(1)
    \/ ClockSteppedBack
    \/ GetRecentTransactions

SpecRecent == Init /\ [][NextRecent]_vars

\* subscribers come and go while lifecycle messages are published
NextBroadcast ==
    \/ \E h \in Handles : Subscribe(h)
    \/ \E h \in Handles : Unsubscribe(h)
    \/ \E message \in LifecycleTags : \E failing \in SUBSET Handles :
          Publish(message, failing)

SpecBroadcast == Init /\ [][NextBroadcast]_vars

\* the research demo: a server is started, requests are posted and, under
\* simple_agent_demo.py, their threads run side by side
NextDemo ==
    \/ \E server \in DemoServers : StartServer(server)
    \/ \E body_query \in PostedQueries : do_POST(body_query)
    \/ \E r \in Requests : ThreadStep(r)
    \/ \E body_query \in PostedQueries : research(body_query)

\* a started thread is scheduled again and again until it ends
SpecDemo == Init /\ [][NextDemo]_vars /\ \A r \in Requests : WF_vars(ThreadStep(r))

(* ------------------------- reading the state -------------------------- *)

PerAgent == revision = PerAgentRev
SingleTx == revision = SingleTxRev

Called == {t \in Tasks : task[t].pc # "idle"}
Finished == {t \in Tasks : task[t].pc \in {"returned", "raised"}}

\* the id of a ledger entry, in either revision
TxId(tx) == IF "tx_hash" \in DOMAIN tx THEN tx.tx_hash ELSE tx.id

LedgerIndexes(id) == {i \in 1..Len(transactions) : TxId(transactions[i]) = id}

InLedger(tx) == \E i \in 1..Len(transactions) : transactions[i] = tx

EventsOf(tr, ev) == SelectSeq(tr, LAMBDA e : e.ev = ev)

EventKeys(tr, ev) == [i \in 1..Len(EventsOf(tr, ev)) |-> EventsOf(tr, ev)[i].key]

DictValues(d) == [i \in 1..Len(d) |-> d[i].v]

\* every workflow dict there is: the ones coroutines hold and the stored ones
LiveWorkflows ==
    {task[t].workflow : t \in {u \in Called : task[u].workflow # NoWorkflow}}
    \cup {workflows[id] : id \in DOMAIN workflows}

IsPrefix(a, b) == Len(a) <= Len(b) /\ SubSeq(b, 1, Len(a)) = a

(* -------------------------------- C1 ---------------------------------- *)

C2_FailureAtStepK ==
    \A t \in Tasks :
        task[t].pc = "raised" =>
            LET tk == task[t]
                w == workflows[tk.workflow_id]
                steps == DictKeys(w.payments)
                k == Len(steps)
            IN /\ w = tk.workflow
               /\ w.status = "failed"
               /\ k >= 1
               /\ steps[k] = tk.stage
               /\ DictKeys(w.results) = SubSeq(steps, 1, k - 1)
               /\ EventKeys(tk.trace, "charge") = steps
               /\ EventKeys(tk.trace, "invoke") = steps
               /\ tk.trace[Len(tk.trace)] = Event("fail", steps[k], w.error)
               /\ Cardinality({i \in 1..Len(transactions) :
                      \E j \in 1..k : transactions[i] = w.payments[j].v}) = k

\* the third agent of a workflow failed
C2_Witness ==
    \E t \in Tasks :
        /\ task[t].pc = "raised"
        /\ Len(task[t].workflow.payments) = 3
        /\ Len(task[t].workflow.results) = 2

(* -------------------------------- C3 ---------------------------------- *)

Amounts(txs) == [i \in 1..Len(txs) |-> txs[i].amount_sol]

\* C4: in every state of every workflow, in flight, completed or failed,
\* total_cost_sol is the sum of the amounts of the transactions in its
\* payments; a workflow of agent_marketplace.py, which keeps no payments,
\* costs the amount of the one transaction its call appended.
C4_TotalCostIsSumOfPayments ==
    /\ \A w \in LiveWorkflows :
          "payments" \in DOMAIN w =>
              w.total_cost_sol = SumSeq(Amounts(DictValues(w.payments)))
    /\ SingleTx =>
          \A t \in Tasks :
             task[t].pc = "returned" =>
                \E i \in 1..Len(transactions) :
                   /\ TxId(transactions[i]) = task[t].trace[Len(task[t].trace)].data
                   /\ transactions[i].amount_sol =
                         workflows[task[t].workflow_id].total_cost_sol

\* a workflow in flight with two payments made
C4_Witness ==
    \E t \in Tasks :
        /\ task[t].pc = "agent"
        /\ Len(task[t].workflow.payments) = 2
        /\ task[t].workflow.total_cost_sol = 200

(* -------------------------------- C5 ---------------------------------- *)

\* the price of every entry of sel that resolves in the catalog
ResolvedPrices(sel) ==
    [i \in 1..Len(sel) |-> IF sel[i] \in KnownKeys THEN price_sol(sel[i]) ELSE 0]

\* the position of an agent in the pipeline of agent_marketplace.py.py
StageRank(key) ==
    CASE key = "search" -> 1
      [] key = "content" -> 2
      [] key = "analysis" -> 3
      [] OTHER -> 4

\* the agents agent_marketplace.py.py charges for sel when the agent `failed`
\* raises ("none": no agent raises): search when selected, content and
\* analysis when selected together with search, none behind the failed one
ChargedAgents(sel, failed) ==
    {k \in KnownKeys :
        /\ InList(k, sel)
        /\ InList("search", sel)
        /\ StageRank(k) <= StageRank(failed)}

PriceIfIn(k, S) == IF k \in S THEN price_sol(k) ELSE 0

ExpectedPerAgentCost(sel, failed) ==
    PriceIfIn("search", ChargedAgents(sel, failed))
    + PriceIfIn("content", ChargedAgents(sel, failed))
    + PriceIfIn("analysis", ChargedAgents(sel, failed))

FailedStage(t) == IF task[t].pc = "raised" THEN task[t].stage ELSE "none"

\* C5 as stated, for the workflows that finished without a failure: the
\* total cost is the sum of the prices of all entries of selected_agents
\* that resolve, for any selection.
C5_TotalIsSumOverSelection ==
    \A t \in Tasks :
        task[t].pc = "returned" =>
            workflows[task[t].workflow_id].total_cost_sol
                = SumSeq(ResolvedPrices(task[t].selected_agents))

\* C5, amended: in agent_marketplace.py the total cost of a finished
\* workflow is the sum of the prices of all entries of selected_agents that
\* resolve, every occurrence counted. In agent_marketplace.py.py it is the
\* sum of the prices of the distinct agents among search, content and
\* analysis that are selected, content and analysis counting only when
\* search is selected too, up to and including the agent that failed.
C5_TotalCostOfFinishedWorkflow ==
    \A t \in Finished :
        LET sel == task[t].selected_agents
            w == workflows[task[t].workflow_id]
        IN /\ PerAgent =>
                 w.total_cost_sol = ExpectedPerAgentCost(sel, FailedStage(t))
           /\ SingleTx => w.total_cost_sol = SumSeq(ResolvedPrices(sel))

\* a workflow of agent_marketplace.py.py that named an unknown id and failed
\* in its second agent: 0.012 + 0.008 SOL were charged
C5_Witness ==
    \E t \in Tasks :
        /\ PerAgent
        /\ task[t].pc = "raised"
        /\ InList(UnknownKey, task[t].selected_agents)
        /\ workflows[task[t].workflow_id].total_cost_sol = 200

(* -------------------------------- C6 ---------------------------------- *)

KnownAgentIds == {agent_info_id(k) : k \in KnownKeys}

\* no transaction, payment or result exists for an id outside the catalog,
\* and a call fails only because a catalog agent raised
UnknownLeavesNoTrace ==
    /\ \A w \in LiveWorkflows :
          /\ "results" \in DOMAIN w => DictKeySet(w.results) \subseteq KnownKeys
          /\ "payments" \in DOMAIN w => DictKeySet(w.payments) \subseteq KnownKeys
    /\ \A i \in 1..Len(transactions) :
          "agent_id" \in DOMAIN transactions[i] =>
              transactions[i].agent_id \in KnownAgentIds
    /\ \A t \in Called :
          /\ \A i \in 1..Len(task[t].trace) :
                task[t].trace[i].ev \in {"invoke", "result", "fail"} =>
                    task[t].trace[i].key \in KnownKeys
          /\ task[t].pc = "raised" => task[t].stage \in KnownKeys

ChargeCount(t) == Len(EventsOf(task[t].trace, "charge"))

PaymentCount(t) ==
    IF "payments" \in DOMAIN task[t].workflow
    THEN Len(task[t].workflow.payments) ELSE 0

\* the providers whose price a call has added to its workflow's cost
ProvidersCharged(t) ==
    IF PerAgent THEN PaymentCount(t)
    ELSE IF task[t].pc = "returned"
         THEN Len(EventsOf(task[t].trace, "result")) ELSE 0

C8_LedgerAppendOnly == [][IsPrefix(transactions, transactions')]_vars

\* get_recent_transactions has returned a ledger of three transactions,
\* latest first
C8_Witness ==
    /\ Len(transactions) = 3
    /\ Len(recent) = 3
    /\ recent[1] = transactions[3]

(* -------------------------------- C9 ---------------------------------- *)

\* C9: with several workflows in flight, every charge a call has made is in
\* the ledger exactly once, the ledger holds nothing else, and the payments
\* of a workflow are the transactions of the charges its own call made.
C9_NoChargeLostOrDuplicated ==
    /\ \A t \in Called :
          \A i \in 1..Len(task[t].trace) :
              task[t].trace[i].ev = "charge" =>
                  Cardinality(LedgerIndexes(task[t].trace[i].data)) = 1
    /\ Len(transactions) = SumSeq([t \in Tasks |-> ChargeCount(t)])
    /\ \A t \in Called :
          LET w == task[t].workflow
              charges == EventsOf(task[t].trace, "charge")
          IN "payments" \in DOMAIN w =>
                /\ Len(w.payments) = Len(charges)
                /\ \A j \in 1..Len(w.payments) :
                      /\ w.payments[j].k = charges[j].key
                      /\ w.payments[j].v.tx_hash = charges[j].data
                      /\ w.payments[j].v.agent_id = agent_info_id(charges[j].key)
                      /\ InLedger(w.payments[j].v)
    /\ \A t \in Finished : workflows[task[t].workflow_id] = task[t].workflow

\* the charges of two workflows in flight alternate in the ledger
C9_Witness ==
    /\ PerAgent
    /\ Len(transactions) >= 3
    /\ PaymentCount(1) >= 2
    /\ PaymentCount(2) >= 1
    /\ transactions[1] = task[1].workflow.payments[1].v
    /\ transactions[2] = task[2].workflow.payments[1].v
    /\ transactions[3] = task[1].workflow.payments[2].v

(* -------------------------------- C10 --------------------------------- *)

\* a before b in selected_agents
SelectedBefore(sel, a, b) ==
    \E i, j \in 1..Len(sel) : i < j /\ sel[i] = a /\ sel[j] = b

\* the catalog ids of sel in the order of their first appearance
RECURSIVE FirstAppearances(_, _)
FirstAppearances(sel, seen) ==
    IF sel = <<>> THEN <<>>
    ELSE IF sel[1] \in KnownKeys /\ sel[1] \notin seen
         THEN <<sel[1]>> \o FirstAppearances(Tail(sel), seen \cup {sel[1]})
         ELSE FirstAppearances(Tail(sel), seen)

C11_CompletedResultsMatchPayments ==
    PerAgent =>
        \A w \in LiveWorkflows :
            w.status = "completed" =>
                DictKeySet(w.results) = DictKeySet(w.payments)

\* a completed workflow with two results and two payments
C11_Witness ==
    \E id \in DOMAIN workflows :
        /\ PerAgent
        /\ workflows[id].status = "completed"
        /\ DictKeySet(workflows[id].results) = {"search", "content"}
        /\ DictKeySet(workflows[id].payments) = {"search", "content"}

(* -------------------------------- C12 --------------------------------- *)

TerminalStatuses == {"completed", "failed"}

\* the status a coroutine's workflow dict may take after status s, in one
\* step of the coroutine: the dict is built processing, and a coroutine
\* that reaches its return without an await is seen completed at once
StatusAfter(s) ==
    CASE s = "none" -> {"processing", "completed"}
      [] s = "processing" -> TerminalStatuses
      [] OTHER -> {}

\* C12: a workflow of agent_marketplace.py.py is in status processing from
\* the moment its dict is built until the call ends (while the coroutine
\* waits for a payment or for an agent), it is completed when the call has
\* returned and failed when the call has raised; its status changes only
\* from processing to completed or to failed, and a workflow that is
\* completed or failed, in a coroutine or in the store, keeps its status.
C12_StatusChangesOnce ==
    /\ [](PerAgent =>
            \A t \in Tasks :
                /\ task[t].pc \in {"payment", "agent"} =>
                      task[t].workflow.status = "processing"
                /\ task[t].pc = "returned" => task[t].workflow.status = "completed"
                /\ task[t].pc = "raised" => task[t].workflow.status = "failed")
    /\ [][PerAgent =>
            /\ \A t \in Tasks :
                  task'[t].workflow.status # task[t].workflow.status =>
                      task'[t].workflow.status \in StatusAfter(task[t].workflow.status)
            /\ \A id \in DOMAIN workflows :
                  /\ id \in DOMAIN workflows'
                  /\ workflows[id].status \in TerminalStatuses
                  /\ workflows'[id].status = workflows[id].status]_vars

\* one workflow has gone from processing to completed and another from
\* processing to failed, each after at least one payment
C12_Witness ==
    \E t, u \in Tasks :
        /\ PerAgent
        /\ task[t].pc = "returned" /\ task[t].workflow.status = "completed"
        /\ task[t].workflow.payments # EmptyDict
        /\ task[u].pc = "raised" /\ task[u].workflow.status = "failed"
        /\ task[u].workflow.payments # EmptyDict
        /\ workflows[task[t].workflow_id].status = "completed"
        /\ workflows[task[u].workflow_id].status = "failed"

(* -------------------------------- C13 --------------------------------- *)

\* C13 as stated: once a stored workflow is completed or failed, no later
\* step (of execute_coral_workflow, of another workflow, of anything) changes
\* or removes the record the store holds under its id.
C13_StoredRecordFrozen ==
    [][\A id \in DOMAIN workflows :
          workflows[id].status \in TerminalStatuses =>
              /\ id \in DOMAIN workflows'
              /\ workflows'[id] = workflows[id]]_vars

(* -------------------------------- C14 --------------------------------- *)

\* the workflow ids that may be asked for: every id drawn or yet to be
\* drawn, and two that never are
AskedIds == {<<"wf", n>> : n \in 0..(NumTasks + 1)}

\* C14: when execute_paid_workflow has ended, by returning or by raising,
\* the store holds the workflow under its id: the very dict the call ended
\* with, completed after a return and failed after a raise, and
\* get_workflow_result(id) returns that dict, for a failed workflow as for a
\* completed one. For an id under which nothing has been stored
\* get_workflow_result returns None.
C14_FinishedIsStoredAndReadable ==
    /\ \A t \in Finished :
          LET id == task[t].workflow_id IN
          /\ id \in DOMAIN workflows
          /\ workflows[id] = task[t].workflow
          /\ workflows[id].id = id
          /\ task[t].pc = "returned" => workflows[id].status = "completed"
          /\ task[t].pc = "raised" => workflows[id].status = "failed"
          /\ PerAgent => get_workflow_result(id) = task[t].workflow
    /\ PerAgent =>
          \A id \in AskedIds :
             id \notin DOMAIN workflows => get_workflow_result(id) = NoneWorkflow

\* one call has raised and its failed workflow is read back, while the
\* workflow of a call still in flight is absent
C14_Witness ==
    \E t, u \in Tasks :
        /\ PerAgent
        /\ task[t].pc = "raised"
        /\ get_workflow_result(task[t].workflow_id).status = "failed"
        /\ task[u].pc = "agent"
        /\ get_workflow_result(task[u].workflow_id) = NoneWorkflow

(* -------------------------------- C15 --------------------------------- *)

\* the pipeline key of the agent with catalogue id agent_id
KeyOfAgentId(agent_id) == CHOOSE k \in KnownKeys : agent_info_id(k) = agent_id

\* C15: every transaction process_payment has appended to the ledger of
\* agent_marketplace.py.py has status confirmed, names an agent of the
\* catalogue and has that agent's price as its amount; its platform fee is
\* the amount times platform_fee (a percentage here, so 100 * fee =
\* amount * platform_fee, with no rounding), the creator's earning is the
\* amount less the fee, and fee and earning add up to the amount.
C15_TransactionSplit ==
    PerAgent =>
        \A i \in 1..Len(transactions) :
            LET tx == transactions[i] IN
            /\ tx.status = "confirmed"
            /\ tx.agent_id \in KnownAgentIds
            /\ tx.amount_sol = price_sol(KeyOfAgentId(tx.agent_id))
            /\ 100 * tx.platform_fee_sol = tx.amount_sol * platform_fee
            /\ tx.creator_earning_sol = tx.amount_sol - tx.platform_fee_sol
            /\ tx.platform_fee_sol + tx.creator_earning_sol = tx.amount_sol

\* the ledger holds a payment for the analysis agent: 0.018 SOL, of which
\* 0.0045 SOL is the fee and 0.0135 SOL the creator's
C15_Witness ==
    \E i \in 1..Len(transactions) :
        /\ PerAgent
        /\ transactions[i].agent_id = "business_analyst_ai"
        /\ transactions[i].amount_sol = 180
        /\ transactions[i].platform_fee_sol = 45
        /\ transactions[i].creator_earning_sol = 135

(* -------------------------------- C16 --------------------------------- *)

\* what the workflows of all calls have been charged, counted from the
\* workflow dicts and not from the ledger
ChargedToWorkflows ==
    SumSeq([t \in 1..NumTasks |->
               IF task[t].workflow = NoWorkflow THEN 0
               ELSE task[t].workflow.total_cost_sol])

StatsKeys == {"total_revenue_sol", "total_transactions", "platform_fee_collected",
              "creator_earnings"}

IsLatestFirst(r, ledger, n) ==
    /\ Len(r) = IF Len(ledger) < n THEN Len(ledger) ELSE n
    /\ \A i \in 1..Len(r) : \E j \in 1..Len(ledger) : r[i] = ledger[j]
    /\ \A i, j \in 1..Len(r) : i < j =>
          r[i] # r[j] /\ r[i].timestamp >= r[j].timestamp
    /\ \A j \in 1..Len(ledger) :
          (\A i \in 1..Len(r) : r[i] # ledger[j]) =>
              \A i \in 1..Len(r) : r[i].timestamp >= ledger[j].timestamp

\* the numbers of transactions a caller may ask for
RequestedNs == 1..(RecentLimit + 1)

Without(r, fields) == [f \in DOMAIN r \ fields |-> r[f]]

\* what a transaction says apart from its id, its place and its time
TxView(tx) == Without(tx, {"tx_hash", "id", "timestamp", "block_height"})

\* the ledger entries of the charges of call t, in the order of the charges
LedgerOf(t) ==
    LET chg == EventsOf(task[t].trace, "charge") IN
    [i \in 1..Len(chg) |->
        {TxView(transactions[j]) : j \in LedgerIndexes(chg[i].data)}]

\* what a workflow dict says apart from its id and its query
WorkflowView(w) ==
    [rest |-> Without(w, {"id", "query", "results", "payments"}),
     results |-> [i \in 1..Len(w.results) |->
                    [k |-> w.results[i].k, v |-> Without(w.results[i].v, {"query"})]],
     payments |-> IF "payments" \in DOMAIN w
                  THEN [i \in 1..Len(w.payments) |->
                          [k |-> w.payments[i].k, v |-> TxView(w.payments[i].v)]]
                  ELSE <<>>]

\* call t was made through execute_coral_workflow while coral_enabled was False
ThroughCoralDisabled(t) == coral_call[t].pc # "none" /\ ~coral_call[t].enabled

\* call u was made to execute_paid_workflow itself
Direct(u) == coral_call[u].pc = "none" /\ task[u].pc # "idle"

\* C18: a call of execute_coral_workflow made while the integration is
\* disabled does what a call of execute_paid_workflow with the same
\* arguments does: no thread is created and no message sent, the workflow
\* is run once, with the selection asked for, and whenever such a call and a
\* direct call with the same selection have ended the same way (both
\* returned, or both raised at the same stage), the two workflows say the
\* same apart from id and query, the ledger has grown by the same
\* transactions and the store by one record each, the one returned.
C18_DisabledIsDirect ==
    \A t \in Tasks :
        ThroughCoralDisabled(t) =>
            /\ coral_call[t].pc = "execute"
            /\ coral_call[t].executes = 1
            /\ coral_call[t].thread_id = "None" /\ coral_call[t].result = "None"
            /\ task[t].pc # "idle"
            /\ task[t].selected_agents = coral_call[t].selected_agents
            /\ \A u \in Tasks :
                  /\ Direct(u)
                  /\ task[u].selected_agents = coral_call[t].selected_agents
                  /\ t \in Finished /\ u \in Finished
                  /\ task[t].pc = task[u].pc /\ task[t].stage = task[u].stage
                  => /\ WorkflowView(task[t].workflow) = WorkflowView(task[u].workflow)
                     /\ LedgerOf(t) = LedgerOf(u)
                     /\ workflows[task[t].workflow_id] = task[t].workflow
                     /\ workflows[task[u].workflow_id] = task[u].workflow
                     /\ EventKeys(task[t].trace, "invoke") = EventKeys(task[u].trace, "invoke")

\* a call through the disabled integration and a direct call, both for
\* content and search, have both returned, two transactions each
C18_Witness ==
    \E t, u \in Tasks :
        /\ ThroughCoralDisabled(t) /\ Direct(u)
        /\ coral_call[t].selected_agents = <<"content", "search">>
        /\ task[u].selected_agents = <<"content", "search">>
        /\ task[t].pc = "returned" /\ task[u].pc = "returned"
        /\ PerAgent
        /\ Len(LedgerOf(t)) = 2 /\ Len(LedgerOf(u)) = 2

(* -------------------------------- C19 --------------------------------- *)

\* call t, made through execute_coral_workflow, has ended: by returning the
\* workflow, with or without the Coral metadata, or by raising what
\* execute_paid_workflow raised
CoralReturned(t) ==
    \/ coral_call[t].pc = "attached"
    \/ coral_call[t].pc = "execute" /\ coral_call[t].result # "ack"
                                    /\ task[t].pc = "returned"

CoralRaised(t) == coral_call[t].pc = "execute" /\ task[t].pc = "raised"

CoralEnded(t) == CoralReturned(t) \/ CoralRaised(t)

\* C19: a call of execute_coral_workflow calls execute_paid_workflow
\* exactly once: not before create_thread and send_message_to_thread have
\* answered, where it waits for them, and once from then on, whether the
\* integration is disabled, the thread is refused, the message is refused
\* or acknowledged, and whether the workflow completes or fails; a call that
\* has ended has run one workflow, stored under one id.
C19_ExecutesExactlyOnce ==
    \A t \in Tasks :
        /\ coral_call[t].pc \in {"thread", "send"} =>
              coral_call[t].executes = 0 /\ task[t].pc = "idle"
        /\ coral_call[t].pc \in {"execute", "attached"} =>
              coral_call[t].executes = 1 /\ task[t].pc # "idle"
        /\ coral_call[t].pc \in {"none", "thread", "send", "execute", "attached"}
        /\ CoralEnded(t) =>
              /\ coral_call[t].executes = 1
              /\ Cardinality({id \in DOMAIN workflows :
                                 workflows[id].query = QueryOf(t)}) = 1

\* two calls of execute_coral_workflow have each run their workflow once:
\* the thread was refused for one and the message acknowledged for the
\* other, and both have ended, the second by raising
C19_Witness ==
    \E t, u \in Tasks :
        /\ coral_call[t].enabled /\ coral_call[t].thread_id = "None"
        /\ CoralEnded(t) /\ coral_call[t].executes = 1
        /\ coral_call[u].result = "ack"
        /\ CoralRaised(u) /\ coral_call[u].executes = 1

(* -------------------------------- C20 --------------------------------- *)

\* call t was made with the integration enabled and the Coral server did
\* not see it through: no thread id came back, or no acknowledgement of the
\* message (a refusal, an exception, an empty body)
CoordinationFailed(t) ==
    /\ coral_call[t].enabled
    /\ coral_call[t].pc \notin {"none", "thread", "send"}
    /\ coral_call[t].result # "ack"

\* C20: a failure of the Coral server during execute_coral_workflow
\* (thread not created, message not acknowledged) never ends the call with
\* an error: the call goes on to execute_paid_workflow, and when that
\* returns the call has returned its workflow, completed, stored, and
\* without Coral metadata; the call raises only what execute_paid_workflow
\* raised, the failure of an agent.
C20_CoordinationFailureNotSurfaced ==
    \A t \in Tasks :
        /\ coral_call[t].pc # "error"
        /\ CoordinationFailed(t) =>
              /\ coral_call[t].pc = "execute"
              /\ task[t].pc # "idle"
              /\ task[t].pc = "returned" =>
                    /\ CoralReturned(t)
                    /\ task[t].workflow.status = "completed"
                    /\ workflows[task[t].workflow_id] = task[t].workflow
                    /\ "coral_protocol" \notin DOMAIN task[t].workflow
              /\ task[t].pc = "raised" =>
                    /\ task[t].trace # <<>>
                    /\ task[t].trace[Len(task[t].trace)].ev = "fail"

\* the thread was created, the message was refused, and the call has
\* returned the workflow it ran itself; for another call the thread was
\* refused, and it has returned too
C20_Witness ==
    \E t, u \in Tasks :
        /\ CoordinationFailed(t) /\ CoordinationFailed(u)
        /\ coral_call[t].thread_id # "None" /\ coral_call[t].result = "None"
        /\ coral_call[u].thread_id = "None"
        /\ CoralReturned(t) /\ CoralReturned(u)
        /\ task[t].workflow.status = "completed"
        /\ task[t].workflow.results # EmptyDict

(* -------------------------------- C21 --------------------------------- *)

\* POST /messages of call t was answered with status 200: the message has
\* been forwarded to the thread
MessageForwarded(t) == coral_call[t].result \in {"ack", "empty"}

\* the keys execute_coral_workflow adds to a workflow dict
CoralKeys == {"coral_protocol", "enhanced_confidence"}

\* C21 as stated: the workflow execute_coral_workflow has returned carries
\* the Coral metadata, with the session id and the thread id of the call, if
\* and only if the integration was enabled and the message was forwarded;
\* otherwise it has none of the added keys.
C21_MetadataIffForwarded ==
    \A t \in Tasks :
        CoralReturned(t) =>
            LET w == task[t].workflow IN
            IF coral_call[t].enabled /\ MessageForwarded(t)
            THEN /\ CoralKeys \subseteq DOMAIN w
                 /\ w.coral_protocol.thread_id = coral_call[t].thread_id
            ELSE DOMAIN w \cap CoralKeys = {}

(* -------------------------------- C22 --------------------------------- *)

\* what connect_to_coral_server returned to the latest initialization
LastProbe == coral.probes[Len(coral.probes)]

C23_UnreachableDisablesForGood ==
    (\E i \in 1..Len(coral.probes) : ~coral.probes[i]) => ~coral.coral_enabled

(* -------------------------------- C24 --------------------------------- *)

(* C24: executing over an empty selected_agents is a no-op on the ledger:
   the workflow completes with total cost 0 and empty results, and no
   transaction is appended to the ledger (the only call of the run leaves
   the ledger empty). *)
C24_EmptySelectionAppendsNothing ==
    \A t \in Finished :
        task[t].selected_agents = <<>> =>
            LET w == workflows[task[t].workflow_id]
            IN /\ w.status = "completed"
               /\ w.total_cost_sol = 0
               /\ DictKeySet(w.results) = {}
               /\ transactions = <<>>

(* ----------------------------- C25, C26 ------------------------------- *)

\* how often a call has invoked the agent of a key
InvokeCount(t, k) ==
    Len(SelectSeq(task[t].trace, LAMBDA e : e.ev = "invoke" /\ e.key = k))

(* C25 as stated: an id that appears more than once in selected_agents is
   invoked at most once in that workflow. *)
C25_DuplicateInvokedAtMostOnce ==
    \A t \in Called : \A k \in SelectableKeys :
        Occurrences(k, task[t].selected_agents) > 1 => InvokeCount(t, k) <= 1

(* C25, amended: in agent_marketplace.py.py an id that appears more than
   once in selected_agents is invoked at most once in that workflow; in
   agent_marketplace.py a catalog agent is invoked once for every
   occurrence of its id (and an unknown id never). *)
C25_DuplicateInvokedPerRevision ==
    \A t \in Called : \A k \in SelectableKeys :
        Occurrences(k, task[t].selected_agents) > 1 =>
            /\ PerAgent => InvokeCount(t, k) <= 1
            /\ SingleTx /\ t \in Finished =>
                  InvokeCount(t, k) =
                      IF k \in KnownKeys
                      THEN Occurrences(k, task[t].selected_agents) ELSE 0

\* a completed workflow of agent_marketplace.py.py whose selection names
\* search twice and content once: search ran once
C25_Witness ==
    \E t \in Tasks :
        /\ PerAgent
        /\ task[t].pc = "returned"
        /\ task[t].selected_agents = <<"search", "search", "content">>
        /\ InvokeCount(t, "search") = 1
        /\ InvokeCount(t, "content") = 1

\* how often a call has charged the agent of a key
ChargesFor(t, k) ==
    Len(SelectSeq(task[t].trace, LAMBDA e : e.ev = "charge" /\ e.key = k))

\* the price of every occurrence of a catalog id in a selection
PricePerOccurrence(sel) ==
    Occurrences("search", sel) * price_sol("search")
    + Occurrences("content", sel) * price_sol("content")
    + Occurrences("analysis", sel) * price_sol("analysis")

\* the steps a call has run for a key: its charges where each agent is paid
\* for, its passes through the loop where one transaction pays for all
StepsFor(t, k) == IF PerAgent THEN ChargesFor(t, k) ELSE InvokeCount(t, k)

(* C26 as stated: each occurrence of a catalog id in selected_agents is an
   independent charge and invoke step: in a workflow that ran to its end an
   id that occurs k times is charged k times and adds k times its price to
   the total cost. *)
C26_EveryOccurrenceCharged ==
    \A t \in Tasks :
        task[t].pc = "returned" =>
            /\ \A k \in KnownKeys :
                  StepsFor(t, k) = Occurrences(k, task[t].selected_agents)
            /\ workflows[task[t].workflow_id].total_cost_sol
                  = PricePerOccurrence(task[t].selected_agents)

(* C26, amended: in agent_marketplace.py each occurrence of a catalog id in
   selected_agents is an independent step that adds the agent's price to
   the total cost, so an id that occurs k times adds k times its price, and
   the whole total is charged in the one transaction of the workflow. In
   agent_marketplace.py.py an id is charged at most once however often it
   occurs, and adds its price to the total cost once for that charge. *)
C26_OccurrencesPerRevision ==
    \A t \in Called :
        LET sel == task[t].selected_agents
        IN /\ SingleTx /\ task[t].pc = "returned" =>
                 /\ \A k \in KnownKeys : InvokeCount(t, k) = Occurrences(k, sel)
                 /\ workflows[task[t].workflow_id].total_cost_sol
                       = PricePerOccurrence(sel)
                 /\ \E i \in 1..Len(transactions) :
                       /\ transactions[i].amount_sol = PricePerOccurrence(sel)
                       /\ \A j \in 1..Len(transactions) : j = i
           /\ PerAgent =>
                 /\ \A k \in KnownKeys : ChargesFor(t, k) <= 1
                 /\ task[t].workflow.total_cost_sol
                       = ChargesFor(t, "search") * price_sol("search")
                         + ChargesFor(t, "content") * price_sol("content")
                         + ChargesFor(t, "analysis") * price_sol("analysis")

\* a workflow of agent_marketplace.py that named search twice and content
\* once has paid for search twice in its one transaction
C26_Witness ==
    \E t \in Tasks :
        /\ SingleTx
        /\ task[t].pc = "returned"
        /\ Occurrences("search", task[t].selected_agents) = 2
        /\ Occurrences("content", task[t].selected_agents) = 1
        /\ Len(transactions) = 1
        /\ transactions[1].amount_sol
               = 2 * price_sol("search") + price_sol("content")

(* -------------------------------- C27 --------------------------------- *)

\* the workflow of a call is stored with a terminal status
StoredTerminal(t) ==
    /\ task[t].workflow_id \in DOMAIN workflows
    /\ workflows[task[t].workflow_id].status \in TerminalStatuses

(* C27: every submitted workflow eventually reaches completed or failed,
   given that every payment and every agent invocation returns or raises:
   a call that has not ended is waiting in a payment, in an agent or in its
   sleep and is never taken out of it, and it ends with its workflow stored
   as completed or failed. *)
C27_EverySubmittedWorkflowEnds ==
    /\ [](\A t \in Called \ Finished : task[t].pc \in {"payment", "agent", "sleep"})
    /\ [][\A t \in Called \ Finished :
             task'[t].pc # "idle" /\ task'[t].workflow_id = task[t].workflow_id]_vars
    /\ \A t \in Tasks : (t \in Called) ~> (t \in Finished /\ StoredTerminal(t))

\* every call of a run of agent_marketplace.py.py has ended, one of them
\* completed after its three agents and one failed
C27_Witness ==
    /\ PerAgent
    /\ \A t \in Tasks : t \in Finished /\ StoredTerminal(t)
    /\ \E t \in Tasks : workflows[task[t].workflow_id].status = "failed"
    /\ \E t \in Tasks :
          /\ workflows[task[t].workflow_id].status = "completed"
          /\ Len(task[t].workflow.results) >= 2

(* -------------------------------- C28 --------------------------------- *)

\* a step is a publish call
IsPublish == broadcaster'.publishes = broadcaster.publishes + 1

(* C28: publish delivers the message to every handle subscribed at that
   moment; a send failure to one subscriber removes only that subscriber
   from the active set and does not prevent delivery to the others; publish
   with zero subscribers does not raise. Nobody else receives anything, and
   only publish delivers. *)
C28_PublishFansOut ==
    /\ [][IsPublish =>
            LET p == broadcaster'.last IN
            /\ p.to = broadcaster.subscribers
            /\ ~p.raised
            /\ broadcaster'.subscribers = broadcaster.subscribers \ p.failed
            /\ \A h \in Handles :
                  broadcaster'.inbox[h] =
                      IF h \in broadcaster.subscribers /\ h \notin p.failed
                      THEN Append(broadcaster.inbox[h], p.message)
                      ELSE broadcaster.inbox[h]]_vars
    /\ [][~IsPublish => broadcaster'.inbox = broadcaster.inbox]_vars

\* two subscribers both received a first message; the send of the second
\* message to the first of them failed: the other one has both messages and
\* is the only one still subscribed
C28_Witness ==
    /\ broadcaster.publishes = 2
    /\ broadcaster.last.to = {1, 2}
    /\ broadcaster.last.failed = {1}
    /\ ~broadcaster.last.raised
    /\ broadcaster.subscribers = {2}
    /\ Len(broadcaster.inbox[2]) = 2
    /\ broadcaster.inbox[2][2] = broadcaster.last.message
    /\ broadcaster.inbox[1] = <<broadcaster.inbox[2][1]>>

(* -------------------------------- C29 --------------------------------- *)

\* a step of some call of execute_coral_workflow, or of the workflow it awaits
IsExecuteStep == coral_call' # coral_call \/ task' # task

(* C29: execute_coral_workflow never changes the state of the integration:
   no step of the call, from its start to its return, changes coral_enabled
   or the session id, also when the thread is refused or the message is not
   acknowledged. *)
C29_ExecuteLeavesIntegrationAlone ==
    [][IsExecuteStep =>
          /\ coral'.coral_enabled = coral.coral_enabled
          /\ coral'.session_id = coral.session_id
          /\ coral'.init = coral.init]_vars

\* after the only initialization a first call was refused its thread and
\* has ended; the integration is still enabled with the same session, and
\* a second call has been coordinated through it
C29_Witness ==
    \E t, u \in Tasks :
        /\ t < u
        /\ coral.inits = 1 /\ coral.init = "idle"
        /\ CoordinationFailed(t) /\ CoralEnded(t)
        /\ coral_call[t].thread_id = "None"
        /\ coral_call[u].pc = "attached"
        /\ coral.coral_enabled
        /\ SessionId(1) = coral.session_id
        /\ task[u].workflow.coral_protocol.session_id = coral.session_id

(* -------------------------------- C30 --------------------------------- *)

\* the workflow dict has an "error" key
HasErrorDetail(w) == "error" \in DOMAIN w

(* C30: a stored workflow has an error detail if and only if its status is
   failed: a completed workflow never carries one, a failed one always
   does, and the detail of a failed workflow names the agent that raised. *)
C30_ErrorDetailIffFailed ==
    /\ \A id \in DOMAIN workflows :
          /\ HasErrorDetail(workflows[id]) <=> workflows[id].status = "failed"
          /\ workflows[id].status = "completed" => ~HasErrorDetail(workflows[id])
    /\ \A t \in Tasks :
          task[t].pc = "raised" =>
              /\ HasErrorDetail(workflows[task[t].workflow_id])
              /\ workflows[task[t].workflow_id].error = <<"error", task[t].stage>>

\* the store holds a failed workflow with its error detail next to a
\* completed one without
C30_Witness ==
    \E a, b \in DOMAIN workflows :
        /\ workflows[a].status = "failed" /\ HasErrorDetail(workflows[a])
        /\ "failed_at" \in DOMAIN workflows[a]
        /\ workflows[b].status = "completed" /\ ~HasErrorDetail(workflows[b])
        /\ "completed_at" \in DOMAIN workflows[b]

(* -------------------------------- C31 --------------------------------- *)

\* the results a call has received from the agent of a key before position
\* i of its trace
ResultsBefore(t, k, i) ==
    {task[t].trace[j].data : j \in {j \in 1..(i - 1) :
        task[t].trace[j].ev = "result" /\ task[t].trace[j].key = k}}

(* C31: the agent invoked at step k of a workflow receives the results the
   agents of the steps before k have produced in the same workflow, and
   nothing else: search receives the query of its workflow, content the
   search result of its workflow, analysis that search result and the
   content result of its workflow ({} when content did not run); no input
   is a result of a later step or of another workflow. *)
C31_InputsAreEarlierResults ==
    \A t \in Called : \A i \in 1..Len(task[t].trace) :
        LET e == task[t].trace[i] IN
        e.ev = "invoke" /\ PerAgent =>
            CASE e.key = "search" -> e.data = <<task[t].query>>
              [] e.key = "content" ->
                   /\ Len(e.data) = 1
                   /\ ResultsBefore(t, "search", i) = {e.data[1]}
                   /\ e.data[1].query = task[t].query
              [] e.key = "analysis" ->
                   /\ Len(e.data) = 2
                   /\ ResultsBefore(t, "search", i) = {e.data[1]}
                   /\ e.data[1].query = task[t].query
                   /\ ResultsBefore(t, "content", i) =
                          IF e.data[2] = EmptyDict THEN {} ELSE {e.data[2]}
                   /\ ResultsBefore(t, "analysis", i) = {}

\* two workflows in flight together: the content agent of one and the
\* analysis agent of the other were each given the search result of their
\* own query, analysis without a content result
C31_Witness ==
    \E t, u \in Tasks :
        /\ t # u /\ PerAgent
        /\ task[t].pc = "returned" /\ task[u].pc = "returned"
        /\ \E i \in 1..Len(task[t].trace) :
              /\ task[t].trace[i].ev = "invoke" /\ task[t].trace[i].key = "content"
              /\ task[t].trace[i].data[1].query = QueryOf(t)
        /\ \E i \in 1..Len(task[u].trace) :
              /\ task[u].trace[i].ev = "invoke" /\ task[u].trace[i].key = "analysis"
              /\ task[u].trace[i].data[1].query = QueryOf(u)
              /\ task[u].trace[i].data[2] = EmptyDict

(* -------------------------------- C32 --------------------------------- *)

(* C32: in agent_marketplace.py.py the content and the analysis agent are
   charged and invoked only when a search result is already in the
   workflow: every charge of one of them comes after the search result of
   the same call, and a call whose selection does not name search has
   returned without waiting, its workflow stored completed with no
   payments, empty results and total cost 0, and the ledger untouched. *)
C32_ContentAndAnalysisNeedSearch ==
    PerAgent =>
        \A t \in Called :
            /\ \A i \in 1..Len(task[t].trace) :
                  task[t].trace[i].key \in {"content", "analysis"} =>
                      ResultsBefore(t, "search", i) # {}
            /\ ~InList("search", task[t].selected_agents) =>
                  /\ task[t].pc = "returned"
                  /\ task[t].trace = <<>>
                  /\ transactions = <<>>
                  /\ LET w == workflows[task[t].workflow_id]
                     IN /\ w.status = "completed"
                        /\ w.payments = EmptyDict
                        /\ w.results = EmptyDict
                        /\ w.total_cost_sol = 0
                        /\ w.total_cost_usd = 0

\* a selection of content and analysis without search has completed for
\* nothing
C32_Witness ==
    \E t \in Tasks :
        /\ PerAgent
        /\ task[t].pc = "returned"
        /\ InList("content", task[t].selected_agents)
        /\ InList("analysis", task[t].selected_agents)
        /\ ~InList("search", task[t].selected_agents)
        /\ workflows[task[t].workflow_id].status = "completed"
        /\ workflows[task[t].workflow_id].total_cost_sol = 0
        /\ transactions = <<>>

(* -------------------------------- C33 --------------------------------- *)

(* C33: the workflow store never holds a workflow whose status is
   processing: the workflow of a call is absent from the store (and
   get_workflow_result gives None for its id) until the call has ended,
   every stored workflow is completed or failed, and the store holds as
   many workflows as calls have ended. *)
C33_StoreHoldsFinishedOnly ==
    /\ \A id \in DOMAIN workflows : workflows[id].status \in TerminalStatuses
    /\ Cardinality(DOMAIN workflows) = Cardinality(Finished)
    /\ DOMAIN workflows = {task[t].workflow_id : t \in Finished}
    /\ \A t \in Called \ Finished :
          /\ task[t].workflow_id \notin DOMAIN workflows
          /\ PerAgent =>
                /\ task[t].workflow.status = "processing"
                /\ get_workflow_result(task[t].workflow_id) = NoneWorkflow

\* one workflow is stored, completed, while another one, already charged
\* for its first agent, is still processing and not in the store
C33_Witness ==
    \E t, u \in Tasks :
        /\ PerAgent
        /\ task[t].pc = "returned"
        /\ Cardinality(DOMAIN workflows) = 1
        /\ task[u].pc = "agent"
        /\ task[u].workflow.status = "processing"
        /\ task[u].workflow.payments # EmptyDict
        /\ task[u].workflow_id \notin DOMAIN workflows

(* -------------------------------- C34 --------------------------------- *)

InFlight == Called \ Finished

\* the total cost of the workflow stored under the n-th id drawn, 0 when
\* none is stored under it
StoredCost(n) ==
    IF <<"wf", n>> \in DOMAIN workflows
    THEN workflows[<<"wf", n>>].total_cost_sol ELSE 0

\* the sum of total_cost_sol over the store, in units of 0.0001 SOL
StoredTotal == SumSeq([n \in 1..uuids.wf |-> StoredCost(n)])

\* what the workflows in flight have been charged so far, in the same units
HeldTotal ==
    SumSeq([t \in Tasks |->
        IF t \in InFlight /\ task[t].workflow # NoWorkflow
        THEN task[t].workflow.total_cost_sol ELSE 0])

\* the amounts of the ledger of agent_marketplace.py.py as floats: every
\* transaction there carries the price of its agent
LedgerFloats ==
    [i \in 1..Len(transactions) |->
        PriceFloat(KeyOfAgentId(transactions[i].agent_id))]

\* the floats get_marketplace_stats() can report as total_revenue_sol
FloatRevenue == BuiltinSum(LedgerFloats)

\* the float the `+=` of agent_marketplace.py.py have left in total_cost_sol
FloatTotalCost(w) ==
    FloatSum([i \in 1..Len(w.payments) |-> PriceFloat(w.payments[i].k)])

FloatLeq(a, b) == a.hi < b.hi \/ (a.hi = b.hi /\ a.lo <= b.lo)

\* the ways of putting the stored workflows in a row
StoreOrders ==
    {o \in [1..Cardinality(DOMAIN workflows) -> DOMAIN workflows] :
        \A i, j \in DOMAIN o : o[i] = o[j] => i = j}

\* the floats that adding up total_cost_sol over the store can give, in
\* whatever order and by whichever sum
FloatStoredTotals ==
    UNION {BuiltinSum([i \in DOMAIN o |-> FloatTotalCost(workflows[o[i]])]) :
              o \in StoreOrders}

(* C34 as stated, on the floats of agent_marketplace.py.py: whenever no
   workflow is in flight the total revenue of the ledger equals the sum of
   total_cost_sol over all stored workflows, failed ones included, and
   while workflows are in flight it is at least that sum; the sum over the
   store may be taken in any order. *)
C34_RevenueEqualsStoredTotals ==
    PerAgent =>
        \A revenue \in FloatRevenue :
            \E total \in FloatStoredTotals :
                /\ FloatLeq(total, revenue)
                /\ InFlight = {} => revenue = total

(* C34, amended: with every amount counted in units of 0.0001 SOL, the
   ledger's total revenue is at every moment the sum of total_cost_sol over
   the stored workflows, failed ones included, plus what the workflows in
   flight have been charged so far: it equals the sum over the store
   whenever no workflow is in flight and is at least that sum otherwise. *)
C34_RevenueIsChargedTotal ==
    LET revenue == get_marketplace_stats.total_revenue_sol
    IN /\ revenue = StoredTotal + HeldTotal
       /\ InFlight = {} => revenue = StoredTotal
       /\ revenue >= StoredTotal

\* two workflows of agent_marketplace.py.py have ended, one completed for
\* 0.02 SOL and one failed in its third agent after 0.038 SOL: the ledger
\* holds 0.058 SOL
C34_Witness ==
    \E t, u \in Tasks :
        /\ PerAgent /\ InFlight = {}
        /\ task[t].pc = "returned" /\ task[u].pc = "raised"
        /\ workflows[task[t].workflow_id].total_cost_sol = 200
        /\ workflows[task[u].workflow_id].total_cost_sol = 380
        /\ Len(transactions) = 5
        /\ get_marketplace_stats.total_revenue_sol = 580

(* -------------------------------- C35 --------------------------------- *)

(* C35: under any interleaving of concurrent payments the i-th transaction
   of the ledger of agent_marketplace.py.py, counting from 0, has
   block_height 287450000 + i, so block heights are pairwise distinct and
   strictly increasing in ledger order. *)
C35_BlockHeightIsLedgerIndex ==
    PerAgent =>
        /\ \A i \in 1..Len(transactions) :
              transactions[i].block_height = 287450000 + (i - 1)
        /\ \A i, j \in 1..Len(transactions) :
              i < j => transactions[i].block_height < transactions[j].block_height

\* the payments of two workflows in flight alternate in the ledger, the
\* fourth of them at height 287450003
C35_Witness ==
    /\ PerAgent
    /\ Len(transactions) = 4
    /\ transactions[4].block_height = 287450003
    /\ \E t, u \in Tasks :
          /\ t # u
          /\ LedgerIndexes(task[t].trace[1].data) = {1}
          /\ LedgerIndexes(task[u].trace[1].data) = {2}
          /\ Len(EventsOf(task[t].trace, "charge")) = 2
          /\ Len(EventsOf(task[u].trace, "charge")) = 2

(* -------------------------------- C36 --------------------------------- *)

(* C36: in every reachable state of the Coral integration, coral_enabled
   implies that session_id is set (not None), and the client holds at most
   one session id at any time: none, or the id of one created session. *)
C36_EnabledHoldsOneSession ==
    /\ coral.coral_enabled => coral.session_id # "None"
    /\ Cardinality({i \in 1..MaxInits : SessionId(i) = coral.session_id}) <= 1

(* -------------------------------- C37 --------------------------------- *)

\* the requests posted so far that passed the check of the query
AcceptedRequests ==
    {r \in 1..Len(demo.requests) : demo.requests[r].query # <<>>}

\* request r has appended its record
Stored(r) == r <= Len(demo.requests) /\ demo.requests[r].appends = 1

\* no process_query is under way
DemoQuiet ==
    \A r \in 1..Len(demo.requests) : demo.requests[r].pc \in {"none", "done", "raised"}

(* C37: in the research demo every accepted request, that is one whose
   query is not empty after strip(), runs Search, then Summarizer, then
   Validator and eventually appends exactly one record to results_history;
   with several requests in concurrent threads the final length of
   results_history is the number of accepted requests, each record holds
   the three phases of its own query, and results_history never shrinks; a
   request with an empty query is answered 400 and appends nothing. *)
C37_EveryAcceptedRequestStoresOneRecord ==
    /\ [](\A r \in 1..Len(demo.requests) :
            LET q == demo.requests[r]
            IN /\ q.query = <<>> <=> q.response = "400 Query required"
               /\ q.query = <<>> => q.appends = 0 /\ q.ran = <<>>
               /\ q.appends <= 1
               /\ q.ran = SubSeq(AgentsUsed, 1, Len(q.ran))
               /\ q.appends = 1 => q.ran = AgentsUsed)
    /\ [](DemoQuiet => Len(demo.results_history) = Cardinality(AcceptedRequests))
    /\ [](\A i \in 1..Len(demo.results_history) :
            LET rec == demo.results_history[i]
            IN /\ rec.search_phase = SearchProcess(rec.query)
               /\ rec.summary_phase = SummarizerProcess(rec.search_phase)
               /\ rec.validation_phase = ValidatorProcess(rec.summary_phase)
               /\ \E r \in AcceptedRequests : demo.requests[r].query = rec.query)
    /\ [][Len(demo.results_history) <= Len(demo'.results_history)
          /\ SubSeq(demo'.results_history, 1, Len(demo.results_history))
                = demo.results_history]_vars
    /\ \A r \in Requests :
          [](r \in AcceptedRequests => <>Stored(r))

====
